---- MODULE Spec2Model ----
(***************************************************************************)
(* Token lifecycle of the Traylinx auth client: the TraylinxAuthClient     *)
(* class (client.js) and the deprecated TokenManager (tokenManager.js).    *)
(*                                                                         *)
(* Concurrency is JavaScript's: one thread, asynchronous tasks.  A task    *)
(* runs without interruption up to its next await of a network call; the   *)
(* delivery of an HTTP response is a macrotask, and the continuations it   *)
(* makes runnable (microtasks) all run before the next response is         *)
(* delivered.                                                              *)
(***************************************************************************)
EXTENDS Integers, Sequences, FiniteSets, TLC

VARIABLES
    now,               \* Date.now(), in milliseconds
    accessToken,       \* TraylinxAuthClient.accessToken
    agentSecretToken,  \* TraylinxAuthClient.agentSecretToken
    tokenExpiration,   \* TraylinxAuthClient.tokenExpiration
    postCount,         \* token requests (POST {apiBaseUrl}/oauth/token) issued by the
                       \* client, the retries of one request not counted
    tasks,             \* the asynchronous calls made on the client or token manager
    fetchPromise,      \* TokenManager._fetchPromise
    configValid,       \* TokenManager: clientId, clientSecret and apiBaseUrl are all set
    options,           \* the options argument of TraylinxAuthClient's constructor
    config,            \* TraylinxAuthClient.config
    retry,             \* per call: the retries of the token request it awaits
    defaultClient,     \* index.js: defaultClient
    constructions,     \* the TraylinxAuthClient instances getDefaultClient has constructed
    envValid           \* process.env holds a configuration that validateConfig accepts

vars == <<now, accessToken, agentSecretToken, tokenExpiration, postCount, tasks,
          fetchPromise, configValid, options, config, retry,
          defaultClient, constructions, envValid>>

\* The fields of TokenManager that TraylinxAuthClient does not have.
managerVars == <<fetchPromise, configValid>>

\* The constructor's options, the configuration made of them, and the retry
\* interceptor's bookkeeping.
configVars == <<options, config, retry>>

\* The state of the module index.js and of the process environment.
moduleVars == <<defaultClient, constructions, envValid>>

(***************************************************************************)
(* Bounds of the model.                                                    *)
(***************************************************************************)
MaxTasks == 2      \* calls made on one client, concurrent or not
MaxTicks == 1      \* clock advances
MaxRetryCount == 4 \* the largest retry number a delay is calculated for

TickMs == 500      \* milliseconds the clock advances in one step

TaskIds == 1..MaxTasks

(***************************************************************************)
(* JavaScript values.  Every value is a tuple, so that values of different *)
(* JavaScript types can be compared.                                       *)
(***************************************************************************)
Undefined == <<"undefined">>
Null == <<"null">>
EmptyString == <<"string", "">>
Num(n) == <<"number", n>>
AgentUserId == <<"string", "agentUserId">>

\* The token strings the authority puts in the response to token request k.
AccessTokenOf(k) == <<"string", "access_token", k>>
SecretTokenOf(k) == <<"string", "agent_secret_token", k>>

\* !v is false
Truthy(v) == v \notin {Undefined, Null, EmptyString, Num(0), <<"boolean", FALSE>>}

\* Number(v) for the values tokenExpiration takes: null converts to 0
ToNumber(v) == IF v = Null THEN 0 ELSE v[2]

\* `Bearer ${token}`
Bearer(token) == <<"string", "Bearer ", token>>

Bool(b) == <<"boolean", b>>
Obj(fields) == <<"object", fields>>

(***************************************************************************)
(* Errors.  An axios error is what a rejected request carries once the     *)
(* transport has given up: a code, the response's status (0: no response   *)
(* was received) and whether the request was sent.  A thrown error is one  *)
(* of the classes of errors.js, or a plain Error.                          *)
(***************************************************************************)
AxiosError(code, status, request) == [code |-> code, status |-> status, request |-> request]

\* The failures a request of the token lifecycle ends with in this model.
AxiosErrors ==
    { AxiosError("ECONNABORTED", 0, TRUE), AxiosError("", 401, TRUE) }

Thrown(name, code, statusCode, message) ==
    [name |-> name, code |-> code, statusCode |-> statusCode, message |-> message]

NoError == Thrown("", "", 0, <<>>)

TraylinxErrorNames ==
    {"TraylinxAuthError", "AuthenticationError", "TokenExpiredError", "NetworkError", "ValidationError"}

\* error instanceof TraylinxAuthError
IsTraylinxAuthError(e) == e.name \in TraylinxErrorNames

\* Mutant: ECONNRESET has no branch of its own.
MutHandleRequestErrorNoReset(error, context) ==
    IF error.code = "ECONNABORTED" THEN Thrown("NetworkError", "TIMEOUT", 408, <<"Request timeout during", context>>)
    ELSE IF error.code = "ENOTFOUND" THEN Thrown("NetworkError", "DNS_ERROR", 0, <<"DNS resolution failed during", context>>)
    ELSE IF error.code = "ECONNREFUSED" THEN Thrown("NetworkError", "CONNECTION_REFUSED", 0, <<"Connection refused during", context>>)
    ELSE IF error.status # 0 THEN
        IF error.status = 401 THEN Thrown("AuthenticationError", "INVALID_CREDENTIALS", 401, <<"Authentication failed during", context>>)
        ELSE IF error.status = 429 THEN Thrown("NetworkError", "RATE_LIMIT", 429, <<"Rate limit exceeded during", context>>)
        ELSE IF error.status >= 500 /\ error.status < 600 THEN Thrown("NetworkError", "SERVER_ERROR", error.status, <<"Server error during", context>>)
        ELSE Thrown("NetworkError", "HTTP_ERROR", error.status, <<"HTTP error during", context>>)
    ELSE IF error.request THEN Thrown("NetworkError", "NO_RESPONSE", 0, <<"Network request failed during", context>>)
    ELSE Thrown("TraylinxAuthError", "UNKNOWN_ERROR", 0, <<"Unexpected error during", context>>)

\* _handleRequestError(error, context): the error it throws
HandleRequestError(error, context) ==
    IF error.code = "ECONNABORTED" THEN Thrown("NetworkError", "TIMEOUT", 408, <<"Request timeout during", context>>)
    ELSE IF error.code = "ENOTFOUND" THEN Thrown("NetworkError", "DNS_ERROR", 0, <<"DNS resolution failed during", context>>)
    ELSE IF error.code = "ECONNREFUSED" THEN Thrown("NetworkError", "CONNECTION_REFUSED", 0, <<"Connection refused during", context>>)
    ELSE IF error.code = "ECONNRESET" THEN Thrown("NetworkError", "CONNECTION_RESET", 0, <<"Connection reset during", context>>)
    ELSE IF error.status # 0 THEN
        IF error.status = 401 THEN Thrown("AuthenticationError", "INVALID_CREDENTIALS", 401, <<"Authentication failed during", context>>)
        ELSE IF error.status = 429 THEN Thrown("NetworkError", "RATE_LIMIT", 429, <<"Rate limit exceeded during", context>>)
        ELSE IF error.status >= 500 /\ error.status < 600 THEN Thrown("NetworkError", "SERVER_ERROR", error.status, <<"Server error during", context>>)
        ELSE Thrown("NetworkError", "HTTP_ERROR", error.status, <<"HTTP error during", context>>)
    ELSE IF error.request THEN Thrown("NetworkError", "NO_RESPONSE", 0, <<"Network request failed during", context>>)
    ELSE Thrown("TraylinxAuthError", "UNKNOWN_ERROR", 0, <<"Unexpected error during", context>>)

\* A TypeError raised by the language (reading a property of null): no code,
\* no response, no request.
TypeError == AxiosError("", 0, FALSE)

(***************************************************************************)
(* What the authority answers.                                             *)
(***************************************************************************)
RequiredFields == <<"access_token", "agent_secret_token", "expires_in">>

TokenBody(a, s, e) == Obj([access_token |-> a, agent_secret_token |-> s, expires_in |-> e])

\* response.data of the answer to token request k: null, or an object with
\* the three fields set, or with one of them absent (Undefined), null or empty.
TokenBodies(k) ==
    {Null} \cup
    { TokenBody(AccessTokenOf(k), SecretTokenOf(k), e) : e \in {Undefined, Num(-100), Num(0), Num(1)} } \cup
    { TokenBody(a, SecretTokenOf(k), Num(1)) : a \in {Undefined, Null, EmptyString} } \cup
    { TokenBody(AccessTokenOf(k), s, Num(1)) : s \in {Undefined, Null, EmptyString} }

\* response.status and response.data of an answer of the introspection endpoint
IntrospectStatuses == {200, 204, 401}
IntrospectBodies ==
    { Null, <<"string", "true">>, Obj([active |-> Bool(TRUE)]), Obj([active |-> Bool(FALSE)]),
      Obj([active |-> <<"string", "true">>]), Obj([active |-> Undefined]) }

(***************************************************************************)
(* Inbound request headers.  A header map is a JavaScript object: here the *)
(* sequence of its <<name, value>> entries in insertion order, the names   *)
(* pairwise distinct.  A header value is a string: plain text without      *)
(* surrounding blanks, 'Bearer ' (or another prefix) followed by a string, *)
(* or a string padded with blanks.                                         *)
(***************************************************************************)
PeerToken == <<"string", "peer_token">>      \* the credential of a Bearer header
PeerSecret == <<"string", "peer_secret">>    \* the credential of a custom header
PeerUserId == <<"string", "peer_user_id">>

\* ' ' + v + ' '
Padded(v) == <<"padded", v>>

\* v.trim()
Trim(v) == IF v[1] = "padded" THEN v[2] ELSE v

\* 'bearer ' + token: the prefix in lower case
LowerBearer(token) == <<"string", "bearer ", token>>

\* v.startsWith('Bearer ')
StartsWithBearer(v) == v[1] = "string" /\ Len(v) = 3 /\ v[2] = "Bearer "

\* v.replace('Bearer ', ''), for a v that starts with 'Bearer '
ReplaceBearer(v) == v[3]

\* v || ''
OrEmpty(v) == IF Truthy(v) THEN v ELSE EmptyString

AuthorizationNames == {"Authorization", "AUTHORIZATION", "authorization"}
SecretTokenNames == {"X-Agent-Secret-Token", "x-agent-secret-token"}
UserIdNames == {"X-Agent-User-Id", "x-agent-user-id"}

\* key.toLowerCase()
ToLowerCase(name) ==
    CASE name \in AuthorizationNames -> "authorization"
      [] name \in SecretTokenNames -> "x-agent-secret-token"
      [] name \in UserIdNames -> "x-agent-user-id"
      [] OTHER -> name

LowerCaseNames == {"authorization", "x-agent-secret-token", "x-agent-user-id"}

\* headers[name]: the value of the entry of that exact name
HeaderValue(headers, name) ==
    IF \E i \in 1..Len(headers) : headers[i][1] = name
    THEN headers[CHOOSE i \in 1..Len(headers) : headers[i][1] = name][2]
    ELSE Undefined

\* Mutant: the names are not lower-cased before they are stored.
MutNormalizedHeadersExact(headers) ==
    [k \in LowerCaseNames |->
        LET idx == {i \in 1..Len(headers) : headers[i][1] = k} IN
        IF idx = {} THEN Undefined
        ELSE headers[CHOOSE i \in idx : \A j \in idx : j <= i][2]]

\* normalizedHeaders: every entry stored under its lower-cased name, a later
\* entry overwriting an earlier one of the same lower-cased name
NormalizedHeaders(headers) ==
    [k \in LowerCaseNames |->
        LET idx == {i \in 1..Len(headers) : ToLowerCase(headers[i][1]) = k} IN
        IF idx = {} THEN Undefined
        ELSE headers[CHOOSE i \in idx : \A j \in idx : j <= i][2]]

\* The header maps of inbound requests in this model.
\* Each header absent or present under each spelling of its name; beside
\* these, maps with an empty or padded value, and maps holding two names that
\* differ only in case.
AuthorizationValues ==
    { Bearer(PeerToken), Bearer(Padded(EmptyString)), LowerBearer(PeerToken) }
Entries(names, values) == {<<>>} \cup { << <<n, v>> >> : n \in names, v \in values }
HeaderMaps ==
    { a \o s \o u : a \in Entries(AuthorizationNames, AuthorizationValues),
                    s \in Entries(SecretTokenNames, {PeerSecret}),
                    u \in Entries(UserIdNames, {PeerUserId}) } \cup
    { << <<"Authorization", Bearer(Padded(PeerToken))>>, <<"X-Agent-User-Id", PeerUserId>> >>,
      << <<"authorization", Bearer(PeerToken)>>, <<"x-agent-user-id", EmptyString>> >>,
      << <<"authorization", Bearer(EmptyString)>>, <<"x-agent-user-id", PeerUserId>> >>,
      << <<"x-agent-secret-token", EmptyString>>, <<"x-agent-user-id", PeerUserId>> >>,
      << <<"x-agent-secret-token", PeerSecret>>, <<"x-agent-user-id", EmptyString>> >>,
      << <<"Authorization", Bearer(PeerToken)>>, <<"authorization", LowerBearer(PeerToken)>>,
         <<"x-agent-user-id", PeerUserId>> >>,
      << <<"authorization", LowerBearer(PeerToken)>>, <<"Authorization", Bearer(PeerToken)>>,
         <<"x-agent-user-id", PeerUserId>> >> }

(***************************************************************************)
(* TraylinxAuthClient                                                      *)
(***************************************************************************)
\* The methods called in the token-lifecycle specification.
ClientOps == {"getAccessToken", "getAgentSecretToken", "getAgentRequestHeaders", "getA2AHeaders"}

\* The methods that reach validateToken: validateToken itself, the client's
\* validateA2ARequest, the module's validateA2ARequest (index.js), and the
\* two middlewares.
MiddlewareOps == {"requireA2AAuth", "requireDualAuth"}
ValidatingOps ==
    {"validateToken", "validateA2ARequest", "index.validateA2ARequest"} \cup MiddlewareOps

\* args: the arguments of the validateToken or rpcCall in progress;
\* headers: req.headers of a middleware invocation.
IdleTask ==
    [op |-> "none", pc |-> "idle", which |-> "none", req |-> 0,
     local |-> Undefined, result |-> Undefined, error |-> NoError,
     args |-> Undefined, headers |-> Undefined]

\* A settled call keeps its method, the token request it awaited, and its
\* value or error (and a middleware its request).
Resolve(task, value) ==
    [IdleTask EXCEPT !.op = task.op, !.pc = "resolved", !.req = task.req, !.result = value,
                     !.headers = task.headers]
Reject(task, e) ==
    [IdleTask EXCEPT !.op = task.op, !.pc = "rejected", !.req = task.req, !.error = e,
                     !.headers = task.headers]

\* getRequestHeaders' returned object
RequestHeaders(access, secret) ==
    Obj([k \in {"Authorization", "X-Agent-Secret-Token", "X-Agent-User-Id"} |->
            CASE k = "Authorization" -> Bearer(access)
              [] k = "X-Agent-Secret-Token" -> secret
              [] k = "X-Agent-User-Id" -> AgentUserId])

\* Mutant: the peer headers also carry the access token.
MutAgentRequestHeaders(secret) == RequestHeaders(accessToken, secret)

\* getAgentRequestHeaders' returned object
AgentRequestHeaders(secret) ==
    Obj([k \in {"X-Agent-Secret-Token", "X-Agent-User-Id"} |->
            IF k = "X-Agent-Secret-Token" THEN secret ELSE AgentUserId])

\* Mutant: the bearer value is the access token.
MutA2AHeaders(secret) ==
    Obj([k \in {"Authorization", "X-Agent-User-Id"} |->
            IF k = "Authorization" THEN Bearer(accessToken) ELSE AgentUserId])

\* getA2AHeaders' returned object
A2AHeaders(secret) ==
    Obj([k \in {"Authorization", "X-Agent-User-Id"} |->
            IF k = "Authorization" THEN Bearer(secret) ELSE AgentUserId])

\* The accessor an operation calls first.
FirstAccessor(op) ==
    IF op \in {"getAccessToken", "getRequestHeaders", "IntrospectionService.validateToken"}
               \cup ValidatingOps
    THEN "access" ELSE "secret"

\* The accessor's test before it fetches:
\* !this.accessToken || Date.now() >= this.tokenExpiration
NeedsFetch(token, expiration, time) == ~Truthy(token) \/ time >= ToNumber(expiration)

\* Mutant: expires_in taken as milliseconds.
MutExpirationOf(time, expires_in) == Num(time + expires_in[2])

\* this.tokenExpiration = Date.now() + (tokenData.expires_in * 1000)
ExpirationOf(time, expires_in) == Num(time + expires_in[2] * 1000)

\* requiredFields.filter(field => !(field in tokenData))
MissingFields(data) == SelectSeq(RequiredFields, LAMBDA f : data[f] = Undefined)

\* The test a token response must pass to be stored.
TokenResponseAccepted(data) == MissingFields(data) = <<>>

\* Mutant: access_token is stored before the response is validated.
MutFetchTokensStoreFirst(body) ==
    IF body = Null
    THEN [error |-> HandleRequestError(TypeError, "token fetch"),
          accessToken |-> accessToken, agentSecretToken |-> agentSecretToken,
          tokenExpiration |-> tokenExpiration]
    ELSE IF ~TokenResponseAccepted(body[2])
    THEN [error |-> Thrown("AuthenticationError", "MALFORMED_TOKEN_RESPONSE", 200,
                           <<"Invalid token response: missing fields", MissingFields(body[2])>>),
          accessToken |-> body[2].access_token, agentSecretToken |-> agentSecretToken,
          tokenExpiration |-> tokenExpiration]
    ELSE [error |-> NoError,
          accessToken |-> body[2].access_token,
          agentSecretToken |-> body[2].agent_secret_token,
          tokenExpiration |-> ExpirationOf(now, body[2].expires_in)]

\* Mutant: a stored agentSecretToken is kept, the other two fields replaced.
MutFetchTokensKeepSecret(body) ==
    IF body = Null \/ ~TokenResponseAccepted(body[2])
    THEN [error |-> Thrown("AuthenticationError", "MALFORMED_TOKEN_RESPONSE", 200, <<>>),
          accessToken |-> accessToken, agentSecretToken |-> agentSecretToken,
          tokenExpiration |-> tokenExpiration]
    ELSE [error |-> NoError,
          accessToken |-> body[2].access_token,
          agentSecretToken |-> IF Truthy(agentSecretToken) THEN agentSecretToken
                               ELSE body[2].agent_secret_token,
          tokenExpiration |-> ExpirationOf(now, body[2].expires_in)]

\* _fetchTokens once the token request has been answered with `body`: the
\* error it throws (NoError: none) and the cache it leaves.
FetchTokens(body) ==
    IF body = Null
    THEN [error |-> HandleRequestError(TypeError, "token fetch"),
          accessToken |-> accessToken, agentSecretToken |-> agentSecretToken,
          tokenExpiration |-> tokenExpiration]
    ELSE IF ~TokenResponseAccepted(body[2])
    THEN [error |-> Thrown("AuthenticationError", "MALFORMED_TOKEN_RESPONSE", 200,
                           <<"Invalid token response: missing fields", MissingFields(body[2])>>),
          accessToken |-> accessToken, agentSecretToken |-> agentSecretToken,
          tokenExpiration |-> tokenExpiration]
    ELSE [error |-> NoError,
          accessToken |-> body[2].access_token,
          agentSecretToken |-> body[2].agent_secret_token,
          tokenExpiration |-> ExpirationOf(now, body[2].expires_in)]

\* rpcCall's target URLs: the authority's RPC endpoint
\* `${this.apiBaseUrl}/a2a/rpc`, the same endpoint written with a trailing
\* slash, and a peer's endpoint.
AuthorityRpcUrl == <<"string", "apiBaseUrl", "/a2a/rpc">>
AuthorityRpcUrlSlash == <<"string", "apiBaseUrl", "/a2a/rpc/">>
PeerRpcUrl == <<"string", "https://other-agent.com/rpc">>
RpcUrls == {Null, AuthorityRpcUrl, AuthorityRpcUrlSlash, PeerRpcUrl}

\* rpcUrl || `${this.apiBaseUrl}/a2a/rpc`
RpcUrl(rpcUrl) == IF Truthy(rpcUrl) THEN rpcUrl ELSE AuthorityRpcUrl

\* Mutant: the argument is ignored, the URL alone decides.
MutIncludeIgnoresArgument(rpcUrl, includeAgentCredentials) ==
    Bool(RpcUrl(rpcUrl) # AuthorityRpcUrl)

\* Mutant: auto-detection always chooses the agent credentials.
MutIncludeAlwaysAgent(rpcUrl, includeAgentCredentials) ==
    IF includeAgentCredentials = Null THEN Bool(TRUE) ELSE includeAgentCredentials

\* includeAgentCredentials after auto-detection
IncludeAgentCredentials(rpcUrl, includeAgentCredentials) ==
    IF includeAgentCredentials = Null
    THEN Bool(RpcUrl(rpcUrl) # AuthorityRpcUrl)
    ELSE includeAgentCredentials

\* Mutant: the agent credentials are added to the Authorization header.
MutRpcHeadersBoth(include, token) ==
    IF Truthy(include)
    THEN Obj([k \in {"Content-Type", "Authorization", "X-Agent-Secret-Token", "X-Agent-User-Id"} |->
                CASE k = "Content-Type" -> <<"string", "application/json">>
                  [] k = "Authorization" -> Bearer(accessToken)
                  [] k = "X-Agent-Secret-Token" -> token
                  [] k = "X-Agent-User-Id" -> AgentUserId])
    ELSE Obj([k \in {"Content-Type", "Authorization"} |->
                IF k = "Content-Type" THEN <<"string", "application/json">> ELSE Bearer(token)])

\* The headers of rpcCall's request, `token` being what the accessor returned.
RpcHeaders(include, token) ==
    IF Truthy(include)
    THEN Obj([k \in {"Content-Type", "X-Agent-Secret-Token", "X-Agent-User-Id"} |->
                CASE k = "Content-Type" -> <<"string", "application/json">>
                  [] k = "X-Agent-Secret-Token" -> token
                  [] k = "X-Agent-User-Id" -> AgentUserId])
    ELSE Obj([k \in {"Content-Type", "Authorization"} |->
                IF k = "Content-Type" THEN <<"string", "application/json">> ELSE Bearer(token)])

\* The operation's step once its accessor has returned `token`.
AfterAccessor(task, token) ==
    CASE task.op \in {"getAccessToken", "getAgentSecretToken"} -> Resolve(task, token)
      [] task.op = "getAgentRequestHeaders" -> Resolve(task, AgentRequestHeaders(token))
      [] task.op = "getA2AHeaders" -> Resolve(task, A2AHeaders(token))
      [] task.op = "getRequestHeaders" /\ task.which = "access" ->
            [task EXCEPT !.pc = "cont", !.local = token]
      [] task.op = "getRequestHeaders" /\ task.which = "secret" ->
            Resolve(task, RequestHeaders(task.local, token))
      [] task.op \in ValidatingOps -> [task EXCEPT !.pc = "cont", !.local = token]
      [] task.op = "rpcCall" ->
            [task EXCEPT !.pc = "awaitRpc",
                         !.args = [@ EXCEPT !.headers = RpcHeaders(task.args.include, token)]]

\* Mutant: the accessor returns what the cache holds after the refresh.
MutAccessorAfterFetchNoCheck(task, token) == AfterAccessor(task, token)

\* The accessor after its await of _fetchTokens: the token it reads from the
\* cache, or TOKEN_UNAVAILABLE.
AccessorAfterFetch(task, token) ==
    IF ~Truthy(token)
    THEN Reject(task, Thrown("TokenExpiredError", "TOKEN_UNAVAILABLE", 401, <<"token is not available">>))
    ELSE AfterAccessor(task, token)

\* whether the accessor, called now, starts a token request
AccessorFetches(which) ==
    NeedsFetch(IF which = "access" THEN accessToken ELSE agentSecretToken, tokenExpiration, now)

\* getAccessToken / getAgentSecretToken up to their first await: a token
\* request is issued, or the cached token is returned.
CallAccessor(t, task, which) ==
    IF AccessorFetches(which)
    THEN /\ postCount' = postCount + 1
         /\ tasks' = [tasks EXCEPT ![t] =
                [task EXCEPT !.pc = "awaitFetch", !.which = which, !.req = postCount + 1]]
    ELSE /\ postCount' = postCount
         /\ tasks' = [tasks EXCEPT ![t] =
                AfterAccessor([task EXCEPT !.which = which],
                              IF which = "access" THEN accessToken ELSE agentSecretToken)]

\* No continuation is runnable (neither the rest of an async method nor the
\* then/catch callback of a middleware): the event loop takes the next response.
NoMicrotaskPending ==
    \A t \in TaskIds :
        /\ tasks[t].pc # "cont"
        /\ ~(tasks[t].op \in MiddlewareOps /\ tasks[t].pc \in {"resolved", "rejected"})

(***************************************************************************)
(* Configuration.  The constructor takes the tunables from its options     *)
(* argument, applies its defaults and has validateConfig check the result; *)
(* the options of this model lie in the ranges validateConfig accepts      *)
(* (maxRetries an integer of 0..10, retryDelay a number of 100..60000,     *)
(* cacheTokens a boolean), which it returns as they are.                   *)
(***************************************************************************)
Options(maxRetries, cacheTokens) ==
    [maxRetries |-> maxRetries, cacheTokens |-> cacheTokens, retryDelay |-> Undefined]

\* { retryDelay: ms }
OptionsWithDelay(retryDelay) ==
    [maxRetries |-> Undefined, cacheTokens |-> Undefined, retryDelay |-> retryDelay]

\* new TraylinxAuthClient(..., {}): no tunable given
DefaultOptions == Options(Undefined, Undefined)

\* The options a client is constructed with in the retry specification.
ClientOptions ==
    { Options(m, c) : m \in {Undefined, Num(0), Num(1)}, c \in {Undefined, Bool(FALSE)} }

\* this.config: maxRetries: options.maxRetries || 3,
\* retryDelay: options.retryDelay || 1000,
\* cacheTokens: options.cacheTokens !== undefined ? options.cacheTokens : true
Config(opts) ==
    [maxRetries |-> IF Truthy(opts.maxRetries) THEN opts.maxRetries[2] ELSE 3,
     retryDelay |-> IF Truthy(opts.retryDelay) THEN opts.retryDelay[2] ELSE 1000,
     cacheTokens |-> IF opts.cacheTokens # Undefined THEN opts.cacheTokens[2] ELSE TRUE]

\* config.__retryCount of the token request a call awaits, and whether the
\* interceptor is in its sleep before the next attempt.
NoRetry == [count |-> 0, sleeping |-> FALSE]

\* A call of one of the client's methods.
\* Calls are numbered in the order they are made.
Start(t, op) ==
    /\ tasks[t].pc = "idle"
    /\ \A u \in TaskIds : u < t => tasks[u].pc # "idle"
    /\ CallAccessor(t, [tasks[t] EXCEPT !.op = op], FirstAccessor(op))
    /\ UNCHANGED <<now, accessToken, agentSecretToken, tokenExpiration, managerVars, configVars, moduleVars>>

\* The token request of task t is answered 2xx with `body`.
DeliverTokenResponse(t, body) ==
    /\ tasks[t].pc = "awaitFetch"
    /\ ~retry[t].sleeping
    /\ NoMicrotaskPending
    /\ LET out == FetchTokens(body) IN
        /\ accessToken' = out.accessToken
        /\ agentSecretToken' = out.agentSecretToken
        /\ tokenExpiration' = out.tokenExpiration
        /\ tasks' = [tasks EXCEPT ![t] =
                IF out.error # NoError
                THEN Reject(tasks[t], out.error)
                ELSE AccessorAfterFetch(tasks[t],
                        IF tasks[t].which = "access" THEN out.accessToken ELSE out.agentSecretToken)]
    /\ retry' = [retry EXCEPT ![t] = NoRetry]
    /\ UNCHANGED <<now, postCount, managerVars, options, config, moduleVars>>

\* The token request of task t fails with axios error e, which the retry
\* interceptor rejects with (no attempt follows).
DeliverTokenError(t, e) ==
    /\ tasks[t].pc = "awaitFetch"
    /\ ~retry[t].sleeping
    /\ NoMicrotaskPending
    /\ tasks' = [tasks EXCEPT ![t] = Reject(tasks[t], HandleRequestError(e, "token fetch"))]
    /\ retry' = [retry EXCEPT ![t] = NoRetry]
    /\ UNCHANGED <<now, accessToken, agentSecretToken, tokenExpiration, postCount, managerVars,
                   options, config, moduleVars>>

\* Mutant: any truthy `active` counts (response.data.active == true-ish).
MutValidateTokenTruthy(status, data) ==
    IF status = 200
    THEN IF data \in {Null, Undefined}
         THEN [error |-> Thrown("AuthenticationError", "INVALID_VALIDATION_RESPONSE", 200,
                                <<"Failed to parse token validation response">>),
               result |-> Undefined]
         ELSE [error |-> NoError,
               result |-> Bool(data[1] = "object" /\ Truthy(data[2].active)
                                /\ data[2].active # Bool(FALSE))]
    ELSE IF status = 401
    THEN [error |-> Thrown("AuthenticationError", "INVALID_ACCESS_TOKEN", 401,
                           <<"Access token invalid for token validation">>),
          result |-> Undefined]
    ELSE [error |-> NoError, result |-> Bool(FALSE)]

\* Mutant: a null body is read with optional chaining (response.data?.active).
MutValidateTokenNullBody(status, data) ==
    IF status = 200
    THEN [error |-> NoError,
          result |-> Bool(data[1] = "object" /\ data[2].active = Bool(TRUE))]
    ELSE IF status = 401
    THEN [error |-> Thrown("AuthenticationError", "INVALID_ACCESS_TOKEN", 401,
                           <<"Access token invalid for token validation">>),
          result |-> Undefined]
    ELSE [error |-> NoError, result |-> Bool(FALSE)]

\* Mutant: a resolved 401 falls through to `return false`.
MutValidateToken401False(status, data) ==
    IF status = 200
    THEN IF data \in {Null, Undefined}
         THEN [error |-> Thrown("AuthenticationError", "INVALID_VALIDATION_RESPONSE", 200,
                                <<"Failed to parse token validation response">>),
               result |-> Undefined]
         ELSE [error |-> NoError,
               result |-> Bool(data[1] = "object" /\ data[2].active = Bool(TRUE))]
    ELSE [error |-> NoError, result |-> Bool(FALSE)]

\* validateToken once the introspection request has been answered: the error
\* it throws (NoError: none) and the value it returns.
ValidateTokenResponse(status, data) ==
    IF status = 200
    THEN IF data \in {Null, Undefined}
         THEN [error |-> Thrown("AuthenticationError", "INVALID_VALIDATION_RESPONSE", 200,
                                <<"Failed to parse token validation response">>),
               result |-> Undefined]
         ELSE [error |-> NoError,
               result |-> Bool(data[1] = "object" /\ data[2].active = Bool(TRUE))]
    ELSE IF status = 401
    THEN [error |-> Thrown("AuthenticationError", "INVALID_ACCESS_TOKEN", 401,
                           <<"Access token invalid for token validation">>),
          result |-> Undefined]
    ELSE [error |-> NoError, result |-> Bool(FALSE)]

\* The continuation of a task whose accessor has returned: getRequestHeaders
\* calls getAgentSecretToken, validateToken posts the introspection request.
Continue(t) ==
    /\ tasks[t].pc = "cont"
    /\ IF tasks[t].op = "getRequestHeaders"
       THEN CallAccessor(t, tasks[t], "secret")
       ELSE /\ tasks' = [tasks EXCEPT ![t] = [tasks[t] EXCEPT !.pc = "awaitIntrospect"]]
            /\ postCount' = postCount
    /\ UNCHANGED <<now, accessToken, agentSecretToken, tokenExpiration, managerVars, configVars, moduleVars>>

\* The introspection request of task t is answered.
DeliverIntrospectResponse(t, status, data) ==
    /\ tasks[t].pc = "awaitIntrospect"
    /\ NoMicrotaskPending
    /\ LET out == ValidateTokenResponse(status, data) IN
        tasks' = [tasks EXCEPT ![t] =
            IF out.error # NoError THEN Reject(tasks[t], out.error)
            ELSE Resolve(tasks[t], out.result)]
    /\ UNCHANGED <<now, accessToken, agentSecretToken, tokenExpiration, postCount, managerVars, configVars, moduleVars>>

\* The introspection request of task t fails with axios error e.
DeliverIntrospectError(t, e) ==
    /\ tasks[t].pc = "awaitIntrospect"
    /\ NoMicrotaskPending
    /\ tasks' = [tasks EXCEPT ![t] = Reject(tasks[t], HandleRequestError(e, "token validation"))]
    /\ UNCHANGED <<now, accessToken, agentSecretToken, tokenExpiration, postCount, managerVars, configVars, moduleVars>>

\* Time passes.
Tick ==
    /\ now < MaxTicks * TickMs
    /\ now' = now + TickMs
    /\ UNCHANGED <<accessToken, agentSecretToken, tokenExpiration, postCount, tasks, managerVars, configVars, moduleVars>>

\* The client after new TraylinxAuthClient(clientId, clientSecret,
\* apiBaseUrl, agentUserId, opts).
Constructed(opts) ==
    /\ now = 0
    /\ accessToken = Null
    /\ agentSecretToken = Null
    /\ tokenExpiration = Null
    /\ postCount = 0
    /\ tasks = [t \in TaskIds |-> IdleTask]
    /\ fetchPromise = Null
    /\ configValid = TRUE
    /\ options = opts
    /\ config = Config(opts)
    /\ retry = [t \in TaskIds |-> NoRetry]

\* The n-th instance that getDefaultClient has constructed.
DefaultClientId(n) == <<"TraylinxAuthClient", n>>

\* The module's getDefaultClient has not been called: the client is one the
\* application has constructed itself.
NoDefaultClient ==
    /\ defaultClient = Null
    /\ constructions = 0
    /\ envValid = TRUE

InitClient == Constructed(DefaultOptions) /\ NoDefaultClient

\* The client is the one that getDefaultClient has constructed and returns.
InitDefaultClient ==
    /\ Constructed(DefaultOptions)
    /\ defaultClient = DefaultClientId(1)
    /\ constructions = 1
    /\ envValid = TRUE

\* The token lifecycle: accessor and header calls on one client.
NextClient ==
    \/ \E t \in TaskIds, op \in ClientOps : Start(t, op)
    \/ \E t \in TaskIds : \E body \in TokenBodies(tasks[t].req) : DeliverTokenResponse(t, body)
    \/ \E t \in TaskIds, e \in AxiosErrors : DeliverTokenError(t, e)
    \/ Tick

SpecClient == InitClient /\ [][NextClient]_vars

\* getRequestHeaders calls, beside getAccessToken calls, on one client.
NextHeaders ==
    \/ \E t \in TaskIds, op \in {"getRequestHeaders", "getAccessToken"} : Start(t, op)
    \/ \E t \in TaskIds : Continue(t)
    \/ \E t \in TaskIds : \E body \in TokenBodies(tasks[t].req) : DeliverTokenResponse(t, body)
    \/ \E t \in TaskIds, e \in AxiosErrors : DeliverTokenError(t, e)
    \/ Tick

SpecHeaders == InitClient /\ [][NextHeaders]_vars

\* validateToken calls on one client.
NextValidate ==
    \/ \E t \in TaskIds : Start(t, "validateToken")
    \/ \E t \in TaskIds : Continue(t)
    \/ \E t \in TaskIds : \E body \in TokenBodies(tasks[t].req) : DeliverTokenResponse(t, body)
    \/ \E t \in TaskIds, e \in AxiosErrors : DeliverTokenError(t, e)
    \/ \E t \in TaskIds, status \in IntrospectStatuses, data \in IntrospectBodies :
            DeliverIntrospectResponse(t, status, data)
    \/ \E t \in TaskIds, e \in AxiosErrors : DeliverIntrospectError(t, e)
    \/ Tick

SpecValidate == InitClient /\ [][NextValidate]_vars

(***************************************************************************)
(* The retry interceptor of the client's axios instance.  It runs when an  *)
(* attempt of a request fails: it sleeps and sends the request again, or   *)
(* rejects with the error, which the method that made the request then     *)
(* normalises.  Here the request is the token request of an accessor.      *)
(***************************************************************************)
\* Mutant: only the 5xx statuses are retried, 429 is not.
MutShouldRetryNo429(error, maxRetries) ==
    IF maxRetries = 0 THEN FALSE
    ELSE IF error.status = 0 /\ error.code = "" THEN FALSE
    ELSE IF error.code \in {"ECONNABORTED", "ENOTFOUND", "ECONNREFUSED", "ECONNRESET", "ETIMEDOUT"}
    THEN TRUE
    ELSE IF error.status # 0 THEN error.status \in {500, 502, 503, 504}
    ELSE FALSE

\* _shouldRetry(error, config), this.config.maxRetries being maxRetries
ShouldRetry(error, maxRetries) ==
    IF maxRetries = 0 THEN FALSE
    ELSE IF error.status = 0 /\ error.code = "" THEN FALSE
    ELSE IF error.code \in {"ECONNABORTED", "ENOTFOUND", "ECONNREFUSED", "ECONNRESET", "ETIMEDOUT"}
    THEN TRUE
    ELSE IF error.status # 0 THEN error.status \in {429, 500, 502, 503, 504}
    ELSE FALSE

\* The errors _shouldRetry is asked about: each network code, a code it does
\* not list and no code, with no response or a response of each status.
TransportErrors ==
    { AxiosError(code, status, TRUE) :
        code \in {"ECONNABORTED", "ENOTFOUND", "ECONNREFUSED", "ECONNRESET", "ETIMEDOUT",
                  "ERR_BAD_REQUEST", ""},
        status \in {0, 400, 401, 403, 404, 429, 500, 502, 503, 504} }

\* The errors an attempt of the token request fails with in this model: a
\* timeout, HTTP 503 and HTTP 401.
AttemptErrors ==
    { AxiosError("ECONNABORTED", 0, TRUE), AxiosError("", 503, TRUE), AxiosError("", 401, TRUE) }

\* Mutant: the interceptor does not compare the counter with maxRetries.
MutRetryInterceptorNoLimit(t, e) ==
    /\ tasks[t].pc = "awaitFetch"
    /\ ~retry[t].sleeping
    /\ NoMicrotaskPending
    /\ IF ShouldRetry(e, config.maxRetries)
       THEN /\ retry' = [retry EXCEPT ![t] = [count |-> @.count + 1, sleeping |-> TRUE]]
            /\ UNCHANGED <<now, accessToken, agentSecretToken, tokenExpiration, postCount, tasks,
                           managerVars, options, config, moduleVars>>
       ELSE DeliverTokenError(t, e)

\* An attempt of the token request of task t fails with axios error e: the
\* interceptor counts a retry and starts its sleep, or rejects with e.
RetryInterceptor(t, e) ==
    /\ tasks[t].pc = "awaitFetch"
    /\ ~retry[t].sleeping
    /\ NoMicrotaskPending
    /\ IF ShouldRetry(e, config.maxRetries) /\ retry[t].count < config.maxRetries
       THEN /\ retry' = [retry EXCEPT ![t] = [count |-> @.count + 1, sleeping |-> TRUE]]
            /\ UNCHANGED <<now, accessToken, agentSecretToken, tokenExpiration, postCount, tasks,
                           managerVars, options, config, moduleVars>>
       ELSE DeliverTokenError(t, e)

\* The interceptor's sleep ends and it sends the request again
\* (return instance(config)).  The length of the sleep is not tied to the
\* clock of the model.
RetryResend(t) ==
    /\ tasks[t].pc = "awaitFetch"
    /\ retry[t].sleeping
    /\ NoMicrotaskPending
    /\ retry' = [retry EXCEPT ![t] = [@ EXCEPT !.sleeping = FALSE]]
    /\ UNCHANGED <<now, accessToken, agentSecretToken, tokenExpiration, postCount, tasks,
                   managerVars, options, config, moduleVars>>

InitRetry == NoDefaultClient /\ \E opts \in ClientOptions : Constructed(opts)

\* Accessor calls on a client constructed with any of the options, every
\* attempt of a token request being answered or failing.
NextRetry ==
    \/ \E t \in TaskIds, op \in {"getAccessToken", "getAgentSecretToken"} : Start(t, op)
    \/ \E t \in TaskIds : \E body \in TokenBodies(tasks[t].req) : DeliverTokenResponse(t, body)
    \/ \E t \in TaskIds, e \in AttemptErrors : RetryInterceptor(t, e)
    \/ \E t \in TaskIds : RetryResend(t)
    \/ Tick

SpecRetry == InitRetry /\ [][NextRetry]_vars

(***************************************************************************)
(* _calculateRetryDelay.  Delays are whole milliseconds: the base delays   *)
(* are multiples of 100 and Math.random() returns tenths, so that the      *)
(* jitter Math.random() * 0.1 * exponentialDelay is a whole number.        *)
(***************************************************************************)
RECURSIVE Pow2(_)
\* Math.pow(2, k)
Pow2(k) == IF k = 0 THEN 1 ELSE 2 * Pow2(k - 1)

Min(a, b) == IF a <= b THEN a ELSE b

\* options.retryDelay of the clients of the delay specification
RetryDelays == {100, 1000, 7000, 10000, 60000}

\* the values Math.random() returns, in tenths
RandomTenths == {0, 5, 9}

\* Mutant: the delay is not capped.
MutCalculateRetryDelayNoCap(retryCount, randomTenths) ==
    LET exponentialDelay == config.retryDelay * Pow2(retryCount - 1)
        jitter == (randomTenths * exponentialDelay) \div 100
    IN  exponentialDelay + jitter

\* _calculateRetryDelay(retryCount), Math.random() returning randomTenths / 10
CalculateRetryDelay(retryCount, randomTenths) ==
    LET exponentialDelay == config.retryDelay * Pow2(retryCount - 1)
        jitter == (randomTenths * exponentialDelay) \div 100
    IN  Min(exponentialDelay + jitter, 30000)

\* A call of _calculateRetryDelay(retryCount): synchronous.
CallCalculateRetryDelay(t, retryCount, randomTenths) ==
    /\ tasks[t].pc = "idle"
    /\ \A u \in TaskIds : u < t => tasks[u].pc # "idle"
    /\ tasks' = [tasks EXCEPT ![t] =
            [IdleTask EXCEPT !.op = "_calculateRetryDelay", !.pc = "resolved",
                             !.args = Num(retryCount),
                             !.result = Num(CalculateRetryDelay(retryCount, randomTenths))]]
    /\ UNCHANGED <<now, accessToken, agentSecretToken, tokenExpiration, postCount, managerVars, configVars, moduleVars>>

InitDelay == NoDefaultClient /\ \E ms \in RetryDelays : Constructed(OptionsWithDelay(Num(ms)))

NextDelay ==
    \E t \in TaskIds, retryCount \in 1..MaxRetryCount, randomTenths \in RandomTenths :
        CallCalculateRetryDelay(t, retryCount, randomTenths)

SpecDelay == InitDelay /\ [][NextDelay]_vars

\* The errors the interceptor and _handleRequestError are given in the error
\* specification: a network code, a code neither of them lists or no code;
\* no response or a response of each kind of status, the request sent; and
\* the same codes on an error that holds neither response nor request.
ErrorCodes ==
    {"ECONNABORTED", "ENOTFOUND", "ECONNREFUSED", "ECONNRESET", "ETIMEDOUT", "ERR_BAD_REQUEST", ""}
ClassifiedErrors ==
    { AxiosError(code, status, TRUE) :
        code \in ErrorCodes, status \in {0, 401, 404, 429, 500, 599, 600} } \cup
    { AxiosError(code, 0, FALSE) : code \in ErrorCodes }

\* Accessor calls on a default client whose token requests fail in every way.
NextErrors ==
    \/ \E t \in TaskIds, op \in {"getAccessToken", "getAgentSecretToken"} : Start(t, op)
    \/ \E t \in TaskIds : \E body \in TokenBodies(tasks[t].req) : DeliverTokenResponse(t, body)
    \/ \E t \in TaskIds, e \in ClassifiedErrors : RetryInterceptor(t, e)
    \/ \E t \in TaskIds : RetryResend(t)
    \/ Tick

SpecErrors == InitClient /\ [][NextErrors]_vars

\* Every attempt is answered or fails (the request has a timeout), and the
\* timer of a sleep fires.
SpecRetryFair ==
    /\ SpecRetry
    /\ \A t \in TaskIds :
          /\ WF_vars(\/ \E body \in TokenBodies(tasks[t].req) : DeliverTokenResponse(t, body)
                     \/ \E e \in AttemptErrors : RetryInterceptor(t, e))
          /\ WF_vars(RetryResend(t))

(***************************************************************************)
(* rpcCall                                                                 *)
(***************************************************************************)
\* String(v), for the values errorCode takes
StringOf(v) ==
    CASE v = Num(-32600) -> "-32600"
      [] v = Num(-32601) -> "-32601"
      [] v = Num(-32602) -> "-32602"
      [] v = Num(-32000) -> "-32000"
      [] v = Num(0) -> "0"
      [] v = Num(1) -> "1"
      [] OTHER -> v[2]

\* response.data of an answer to the RPC request: null, a result, or an
\* error object with a code (a number, or none).
RpcErrorCodes == {Num(-32600), Num(-32601), Num(-32602), Num(-32000), Num(0), Num(1), Undefined}
RpcResult == Obj([error |-> Undefined])
RpcError(code) == Obj([error |-> Obj([code |-> code])])
RpcBodies == {Null, RpcResult} \cup {RpcError(code) : code \in RpcErrorCodes}

\* rpcCall once the RPC request has been answered 2xx with `data`: the error
\* it throws (NoError: none) and the value it returns.
RpcResponse(data) ==
    IF data = Null
    THEN [error |-> Thrown("TraylinxAuthError", "INVALID_RPC_RESPONSE", 200,
                           <<"Failed to parse RPC response">>),
          result |-> Undefined]
    ELSE IF ~Truthy(data[2].error)
    THEN [error |-> NoError, result |-> data]
    ELSE LET errorInfo == data[2].error[2]
             errorCode == IF Truthy(errorInfo.code) THEN errorInfo.code ELSE <<"string", "RPC_ERROR">>
         IN  [error |->
                 CASE errorCode = Num(-32600) ->
                        Thrown("ValidationError", "INVALID_RPC_REQUEST", 400, <<"Invalid RPC request">>)
                   [] errorCode = Num(-32601) ->
                        Thrown("ValidationError", "METHOD_NOT_FOUND", 404, <<"RPC method not found">>)
                   [] errorCode = Num(-32602) ->
                        Thrown("ValidationError", "INVALID_RPC_PARAMS", 400, <<"Invalid RPC parameters">>)
                   [] OTHER ->
                        Thrown("TraylinxAuthError", StringOf(errorCode), 500, <<"RPC error", errorCode>>),
              result |-> Undefined]

\* A call of rpcCall(method, params, rpcUrl, includeAgentCredentials), up to
\* its first await of a network call.
RpcCall(t, rpcUrl, includeAgentCredentials) ==
    /\ tasks[t].pc = "idle"
    /\ \A u \in TaskIds : u < t => tasks[u].pc # "idle"
    /\ LET include == IncludeAgentCredentials(rpcUrl, includeAgentCredentials)
           task == [tasks[t] EXCEPT !.op = "rpcCall",
                        !.args = [rpcUrl |-> rpcUrl, includeAgentCredentials |-> includeAgentCredentials,
                                  url |-> RpcUrl(rpcUrl), include |-> include, headers |-> Undefined]]
       IN  CallAccessor(t, task, IF Truthy(include) THEN "secret" ELSE "access")
    /\ UNCHANGED <<now, accessToken, agentSecretToken, tokenExpiration, managerVars, configVars, moduleVars>>

\* The RPC request of task t is answered 2xx with `data`.
DeliverRpcResponse(t, data) ==
    /\ tasks[t].pc = "awaitRpc"
    /\ NoMicrotaskPending
    /\ LET out == RpcResponse(data) IN
        tasks' = [tasks EXCEPT ![t] =
            IF out.error # NoError THEN Reject(tasks[t], out.error)
            ELSE Resolve(tasks[t], out.result)]
    /\ UNCHANGED <<now, accessToken, agentSecretToken, tokenExpiration, postCount, managerVars, configVars, moduleVars>>

\* The RPC request of task t fails with axios error e.
DeliverRpcError(t, e) ==
    /\ tasks[t].pc = "awaitRpc"
    /\ NoMicrotaskPending
    /\ tasks' = [tasks EXCEPT ![t] = Reject(tasks[t], HandleRequestError(e, "RPC call"))]
    /\ UNCHANGED <<now, accessToken, agentSecretToken, tokenExpiration, postCount, managerVars, configVars, moduleVars>>

NextRpc ==
    \/ \E t \in TaskIds, rpcUrl \in RpcUrls, includeAgentCredentials \in {Null, Bool(TRUE), Bool(FALSE)} :
            RpcCall(t, rpcUrl, includeAgentCredentials)
    \/ \E t \in TaskIds : \E body \in TokenBodies(tasks[t].req) : DeliverTokenResponse(t, body)
    \/ \E t \in TaskIds, e \in AxiosErrors : DeliverTokenError(t, e)
    \/ \E t \in TaskIds, data \in RpcBodies : DeliverRpcResponse(t, data)
    \/ \E t \in TaskIds, e \in AxiosErrors : DeliverRpcError(t, e)
    \/ Tick

SpecRpc == InitClient /\ [][NextRpc]_vars

(***************************************************************************)
(* Dual-mode validation of inbound requests.                               *)
(***************************************************************************)
\* detectAuthMode(headers)
DetectAuthMode(headers) ==
    LET normalizedHeaders == NormalizedHeaders(headers) IN
    IF StartsWithBearer(OrEmpty(normalizedHeaders["authorization"])) THEN "bearer"
    ELSE IF Truthy(normalizedHeaders["x-agent-secret-token"]) THEN "custom"
    ELSE "none"

\* Mutant: the Bearer branch does not ask for the agent user id, and the
\* custom branch does not either.
MutA2ACredentialNoUserId(headers) ==
    LET normalizedHeaders == NormalizedHeaders(headers)
        authHeader == OrEmpty(normalizedHeaders["authorization"])
        agentId == normalizedHeaders["x-agent-user-id"]
        customToken == normalizedHeaders["x-agent-secret-token"]
    IN  IF StartsWithBearer(authHeader) /\ Truthy(Trim(ReplaceBearer(authHeader)))
        THEN <<Trim(ReplaceBearer(authHeader)), agentId>>
        ELSE IF Truthy(customToken)
        THEN <<customToken, agentId>>
        ELSE Undefined

\* The validateToken call the client's validateA2ARequest(headers) makes:
\* its arguments <<token, agentId>>, or Undefined when it returns false
\* without calling validateToken.
A2ACredential(headers) ==
    LET normalizedHeaders == NormalizedHeaders(headers)
        authHeader == OrEmpty(normalizedHeaders["authorization"])
        agentId == normalizedHeaders["x-agent-user-id"]
        customToken == normalizedHeaders["x-agent-secret-token"]
    IN  IF StartsWithBearer(authHeader) /\ Truthy(Trim(ReplaceBearer(authHeader))) /\ Truthy(agentId)
        THEN <<Trim(ReplaceBearer(authHeader)), agentId>>
        ELSE IF Truthy(customToken) /\ Truthy(agentId)
        THEN <<customToken, agentId>>
        ELSE Undefined

\* A call of detectAuthMode(headers): synchronous.
CallDetectAuthMode(t, headers) ==
    /\ tasks[t].pc = "idle"
    /\ \A u \in TaskIds : u < t => tasks[u].pc # "idle"
    /\ tasks' = [tasks EXCEPT ![t] =
            Resolve([tasks[t] EXCEPT !.op = "detectAuthMode"], <<"string", DetectAuthMode(headers)>>)]
    /\ UNCHANGED <<now, accessToken, agentSecretToken, tokenExpiration, postCount, managerVars, configVars, moduleVars>>

\* A call of the client's validateA2ARequest(headers), up to its first await
\* of a network call: it returns false, or calls validateToken, which calls
\* getAccessToken.
ValidateA2ARequest(t, headers) ==
    /\ tasks[t].pc = "idle"
    /\ \A u \in TaskIds : u < t => tasks[u].pc # "idle"
    /\ LET task == [tasks[t] EXCEPT !.op = "validateA2ARequest"]
           credential == A2ACredential(headers)
       IN  IF credential = Undefined
           THEN /\ tasks' = [tasks EXCEPT ![t] = Resolve(task, Bool(FALSE))]
                /\ postCount' = postCount
           ELSE CallAccessor(t, [task EXCEPT !.args = credential], "access")
    /\ UNCHANGED <<now, accessToken, agentSecretToken, tokenExpiration, managerVars, configVars, moduleVars>>

\* Inbound validation on one client: detectAuthMode and validateA2ARequest.
NextA2A ==
    \/ \E t \in TaskIds, headers \in HeaderMaps : CallDetectAuthMode(t, headers)
    \/ \E t \in TaskIds, headers \in HeaderMaps : ValidateA2ARequest(t, headers)
    \/ \E t \in TaskIds : Continue(t)
    \/ \E t \in TaskIds : \E body \in TokenBodies(tasks[t].req) : DeliverTokenResponse(t, body)
    \/ \E t \in TaskIds, e \in AxiosErrors : DeliverTokenError(t, e)
    \/ \E t \in TaskIds, status \in IntrospectStatuses, data \in IntrospectBodies :
            DeliverIntrospectResponse(t, status, data)
    \/ \E t \in TaskIds, e \in AxiosErrors : DeliverIntrospectError(t, e)
    \/ Tick

SpecA2A == InitClient /\ [][NextA2A]_vars

(***************************************************************************)
(* Express middleware (index.js): requireA2AAuth validates with the        *)
(* module's validateA2ARequest, requireDualAuth with the client's.         *)
(***************************************************************************)
\* req.headers as the HTTP server delivers them, every name in lower case:
\* no credential, each credential shape with and without the user id, and a
\* Bearer header without token beside a custom credential.
MiddlewareHeaderMaps ==
    { <<>>,
      << <<"x-agent-secret-token", PeerSecret>> >>,
      << <<"x-agent-secret-token", PeerSecret>>, <<"x-agent-user-id", PeerUserId>> >>,
      << <<"authorization", Bearer(PeerToken)>> >>,
      << <<"authorization", Bearer(PeerToken)>>, <<"x-agent-user-id", PeerUserId>> >>,
      << <<"authorization", Bearer(Padded(EmptyString))>>, <<"x-agent-secret-token", PeerSecret>>,
         <<"x-agent-user-id", PeerUserId>> >> }

\* Mutant: the module's validateA2ARequest does not ask for the agent user id.
MutIndexA2ACredentialNoUserId(headers) ==
    LET agentSecretToken_ == HeaderValue(headers, "x-agent-secret-token")
        agentUserId == HeaderValue(headers, "x-agent-user-id")
    IN  IF ~Truthy(agentSecretToken_) THEN Undefined
        ELSE <<agentSecretToken_, agentUserId>>

\* The validateToken call the module's validateA2ARequest(headers) makes:
\* its arguments, or Undefined when it returns false.
IndexA2ACredential(headers) ==
    LET agentSecretToken_ == HeaderValue(headers, "x-agent-secret-token")
        agentUserId == HeaderValue(headers, "x-agent-user-id")
    IN  IF ~Truthy(agentSecretToken_) \/ ~Truthy(agentUserId) THEN Undefined
        ELSE <<agentSecretToken_, agentUserId>>

\* What a middleware has done: called next(), or sent
\* res.status(status).json({error}).  authMode is req.authMode as it is when
\* next() is called or the response is sent (Undefined: never assigned).
Outcome(next, status, error, authMode) ==
    Obj([next |-> next, status |-> status, error |-> error, authMode |-> authMode])

\* Mutant: the catch callback lets the request through.
MutMiddlewareOutcomeFailOpen(task) ==
    IF task.pc = "resolved" /\ Truthy(task.result)
    THEN Outcome(TRUE, 0, "",
                 IF task.op = "requireDualAuth"
                 THEN <<"string", DetectAuthMode(task.headers)>> ELSE Undefined)
    ELSE IF task.pc = "resolved"
    THEN Outcome(FALSE, 401,
                 IF task.op = "requireDualAuth" THEN "Invalid or missing authentication"
                 ELSE "Invalid or missing A2A authentication", Undefined)
    ELSE Outcome(TRUE, 0, "", Undefined)

\* Mutant: requireDualAuth assigns req.authMode before it looks at isValid.
MutMiddlewareOutcomeModeFirst(task) ==
    LET authMode == IF task.op = "requireDualAuth"
                    THEN <<"string", DetectAuthMode(task.headers)>> ELSE Undefined
    IN  IF task.pc = "resolved" /\ Truthy(task.result)
        THEN Outcome(TRUE, 0, "", authMode)
        ELSE IF task.pc = "resolved"
        THEN Outcome(FALSE, 401,
                     IF task.op = "requireDualAuth" THEN "Invalid or missing authentication"
                     ELSE "Invalid or missing A2A authentication", authMode)
        ELSE Outcome(FALSE, 500, "Internal server error", Undefined)

\* The then / catch callbacks of the middleware, applied to the settled
\* validation promise.
MiddlewareOutcome(task) ==
    IF task.pc = "resolved" /\ Truthy(task.result)
    THEN Outcome(TRUE, 0, "",
                 IF task.op = "requireDualAuth"
                 THEN <<"string", DetectAuthMode(task.headers)>> ELSE Undefined)
    ELSE IF task.pc = "resolved"
    THEN Outcome(FALSE, 401,
                 IF task.op = "requireDualAuth" THEN "Invalid or missing authentication"
                 ELSE "Invalid or missing A2A authentication", Undefined)
    ELSE Outcome(FALSE, 500, "Internal server error", Undefined)

\* A middleware is invoked with req.headers = headers: the validation runs up
\* to its first await of a network call.
RequireAuth(t, op, headers) ==
    /\ tasks[t].pc = "idle"
    /\ \A u \in TaskIds : u < t => tasks[u].pc # "idle"
    /\ LET task == [tasks[t] EXCEPT !.op = op, !.headers = headers]
           credential == IF op = "requireA2AAuth" THEN IndexA2ACredential(headers)
                         ELSE A2ACredential(headers)
       IN  IF credential = Undefined
           THEN /\ tasks' = [tasks EXCEPT ![t] = Resolve(task, Bool(FALSE))]
                /\ postCount' = postCount
           ELSE CallAccessor(t, [task EXCEPT !.args = credential], "access")
    /\ UNCHANGED <<now, accessToken, agentSecretToken, tokenExpiration, managerVars, configVars, moduleVars>>

\* The validation promise of middleware t has settled: its then or catch
\* callback runs.
MiddlewareRespond(t) ==
    /\ tasks[t].op \in MiddlewareOps
    /\ tasks[t].pc \in {"resolved", "rejected"}
    /\ tasks' = [tasks EXCEPT ![t] =
            [IdleTask EXCEPT !.op = tasks[t].op, !.pc = "responded", !.req = tasks[t].req,
                             !.result = MiddlewareOutcome(tasks[t]), !.headers = tasks[t].headers]]
    /\ UNCHANGED <<now, accessToken, agentSecretToken, tokenExpiration, postCount, managerVars, configVars, moduleVars>>

NextMiddleware ==
    \/ \E t \in TaskIds, op \in MiddlewareOps, headers \in MiddlewareHeaderMaps : RequireAuth(t, op, headers)
    \/ \E t \in TaskIds : MiddlewareRespond(t)
    \/ \E t \in TaskIds : Continue(t)
    \/ \E t \in TaskIds : \E body \in TokenBodies(tasks[t].req) : DeliverTokenResponse(t, body)
    \/ \E t \in TaskIds, e \in AxiosErrors : DeliverTokenError(t, e)
    \/ \E t \in TaskIds, status \in IntrospectStatuses, data \in IntrospectBodies :
            DeliverIntrospectResponse(t, status, data)
    \/ \E t \in TaskIds, e \in AxiosErrors : DeliverIntrospectError(t, e)
    \/ Tick

SpecMiddleware == InitDefaultClient /\ [][NextMiddleware]_vars

\* The then / catch callbacks when next() may throw: the catch callback is
\* chained after the then callback (.then(...).catch(...)), so an exception
\* of next() reaches it and it sends the 500 response.
MiddlewareCallbacks(task, nextThrows) ==
    LET outcome == MiddlewareOutcome(task) IN
    IF outcome[2].next /\ nextThrows
    THEN Outcome(TRUE, 500, "Internal server error", outcome[2].authMode)
    ELSE outcome

\* The validation promise of middleware t has settled: its callbacks run,
\* next() returning normally or throwing.
MiddlewareSettle(t, nextThrows) ==
    /\ tasks[t].op \in MiddlewareOps
    /\ tasks[t].pc \in {"resolved", "rejected"}
    /\ tasks' = [tasks EXCEPT ![t] =
            [IdleTask EXCEPT !.op = tasks[t].op, !.pc = "responded", !.req = tasks[t].req,
                             !.result = MiddlewareCallbacks(tasks[t], nextThrows),
                             !.headers = tasks[t].headers]]
    /\ UNCHANGED <<now, accessToken, agentSecretToken, tokenExpiration, postCount, managerVars, configVars, moduleVars>>

\* req.headers of the requests of the specification below
SettleHeaderMaps ==
    { <<>>,
      << <<"x-agent-secret-token", PeerSecret>>, <<"x-agent-user-id", PeerUserId>> >>,
      << <<"authorization", Bearer(PeerToken)>>, <<"x-agent-user-id", PeerUserId>> >> }

\* The middlewares with a next() that may throw.
NextMiddlewareSettle ==
    \/ \E t \in TaskIds, op \in MiddlewareOps, headers \in SettleHeaderMaps : RequireAuth(t, op, headers)
    \/ \E t \in TaskIds, nextThrows \in BOOLEAN : MiddlewareSettle(t, nextThrows)
    \/ \E t \in TaskIds : Continue(t)
    \/ \E t \in TaskIds : \E body \in TokenBodies(tasks[t].req) : DeliverTokenResponse(t, body)
    \/ \E t \in TaskIds, e \in AxiosErrors : DeliverTokenError(t, e)
    \/ \E t \in TaskIds, status \in IntrospectStatuses, data \in IntrospectBodies :
            DeliverIntrospectResponse(t, status, data)
    \/ \E t \in TaskIds, e \in AxiosErrors : DeliverIntrospectError(t, e)
    \/ Tick

SpecMiddlewareSettle == InitDefaultClient /\ [][NextMiddlewareSettle]_vars

(***************************************************************************)
(* The module-level validateA2ARequest of index.js, which works on the     *)
(* default client.                                                         *)
(***************************************************************************)
\* A call of the module's validateA2ARequest(headers), up to its first await
\* of a network call: it returns false, or calls the default client's
\* validateToken, which calls getAccessToken.
IndexValidateA2ARequest(t, headers) ==
    /\ tasks[t].pc = "idle"
    /\ \A u \in TaskIds : u < t => tasks[u].pc # "idle"
    /\ LET task == [tasks[t] EXCEPT !.op = "index.validateA2ARequest"]
           credential == IndexA2ACredential(headers)
       IN  IF credential = Undefined
           THEN /\ tasks' = [tasks EXCEPT ![t] = Resolve(task, Bool(FALSE))]
                /\ postCount' = postCount
           ELSE CallAccessor(t, [task EXCEPT !.args = credential], "access")
    /\ UNCHANGED <<now, accessToken, agentSecretToken, tokenExpiration, managerVars, configVars, moduleVars>>

\* Inbound validation through the module-level function.
NextIndex ==
    \/ \E t \in TaskIds, headers \in HeaderMaps : IndexValidateA2ARequest(t, headers)
    \/ \E t \in TaskIds : Continue(t)
    \/ \E t \in TaskIds : \E body \in TokenBodies(tasks[t].req) : DeliverTokenResponse(t, body)
    \/ \E t \in TaskIds, e \in AxiosErrors : DeliverTokenError(t, e)
    \/ \E t \in TaskIds, status \in IntrospectStatuses, data \in IntrospectBodies :
            DeliverIntrospectResponse(t, status, data)
    \/ \E t \in TaskIds, e \in AxiosErrors : DeliverIntrospectError(t, e)
    \/ Tick

SpecIndex == InitDefaultClient /\ [][NextIndex]_vars

(***************************************************************************)
(* getDefaultClient (index.js) and the module-level functions that call    *)
(* it.  new TraylinxAuthClient() takes its configuration from process.env  *)
(* and throws ValidationError when validateConfig rejects it.  The cache   *)
(* fields are those of the instance that getDefaultClient returns.         *)
(***************************************************************************)
\* The module-level functions, by the client method they call:
\* getRequestHeaders, getAgentRequestHeaders, getA2ARequestHeaders
\* (getA2AHeaders), validateA2ARequest, validateDualAuthRequest (the
\* client's validateA2ARequest) and detectAuthMode.
ModuleOps ==
    {"getRequestHeaders", "getAgentRequestHeaders", "getA2AHeaders",
     "index.validateA2ARequest", "validateA2ARequest", "detectAuthMode"}

\* Mutant: getDefaultClient constructs an instance at each call.
MutGetDefaultClientAlwaysNew ==
    [defaultClient |-> DefaultClientId(constructions + 1), constructions |-> constructions + 1]

\* getDefaultClient() when the constructor does not throw: the instance it
\* returns and leaves in defaultClient, and the instances constructed so far.
GetDefaultClient ==
    IF defaultClient = Null
    THEN [defaultClient |-> DefaultClientId(constructions + 1), constructions |-> constructions + 1]
    ELSE [defaultClient |-> defaultClient, constructions |-> constructions]

\* whether getDefaultClient(), called now, throws: it constructs, and the
\* constructor rejects the configuration
ConstructionThrows == defaultClient = Null /\ ~envValid

\* The method of the default client that the module-level function calls, up
\* to its first await of a network call.
ClientCall(t, op, headers) ==
    LET task == [tasks[t] EXCEPT !.op = op] IN
    CASE op \in {"getRequestHeaders", "getAgentRequestHeaders", "getA2AHeaders"} ->
            CallAccessor(t, task, FirstAccessor(op))
      [] op = "index.validateA2ARequest" ->
            CallAccessor(t, [task EXCEPT !.args = IndexA2ACredential(headers)], "access")
      [] op = "validateA2ARequest" ->
            IF A2ACredential(headers) = Undefined
            THEN /\ tasks' = [tasks EXCEPT ![t] = Resolve(task, Bool(FALSE))]
                 /\ postCount' = postCount
            ELSE CallAccessor(t, [task EXCEPT !.args = A2ACredential(headers)], "access")
      [] op = "detectAuthMode" ->
            /\ tasks' = [tasks EXCEPT ![t] = Resolve(task, <<"string", DetectAuthMode(headers)>>)]
            /\ postCount' = postCount

\* A call of a module-level function with `headers` (the functions without
\* parameter ignore them).  The module's validateA2ARequest returns false
\* before it asks for the default client when a header is missing.
ModuleCall(t, op, headers) ==
    /\ tasks[t].pc = "idle"
    /\ \A u \in TaskIds : u < t => tasks[u].pc # "idle"
    /\ IF op = "index.validateA2ARequest" /\ IndexA2ACredential(headers) = Undefined
       THEN /\ tasks' = [tasks EXCEPT ![t] = Resolve([tasks[t] EXCEPT !.op = op], Bool(FALSE))]
            /\ UNCHANGED <<postCount, defaultClient, constructions>>
       ELSE IF ConstructionThrows
       THEN /\ tasks' = [tasks EXCEPT ![t] =
                    Reject([tasks[t] EXCEPT !.op = op],
                           Thrown("ValidationError", "CONFIG_VALIDATION_ERROR", 400, <<>>))]
            /\ UNCHANGED <<postCount, defaultClient, constructions>>
       ELSE /\ defaultClient' = GetDefaultClient.defaultClient
            /\ constructions' = GetDefaultClient.constructions
            /\ ClientCall(t, op, headers)
    /\ UNCHANGED <<now, accessToken, agentSecretToken, tokenExpiration, managerVars, configVars, envValid>>

\* The application changes process.env (it loads or clears the TRAYLINX_*
\* variables).
SetEnv ==
    /\ envValid' = ~envValid
    /\ UNCHANGED <<now, accessToken, agentSecretToken, tokenExpiration, postCount, tasks,
                   managerVars, configVars, defaultClient, constructions>>

\* No call has been made on the module: no instance exists, and the cache
\* fields are those its constructor will set.
InitModule ==
    /\ Constructed(DefaultOptions)
    /\ defaultClient = Null
    /\ constructions = 0
    /\ envValid \in BOOLEAN

NextModule ==
    \/ \E t \in TaskIds, op \in ModuleOps, headers \in SettleHeaderMaps : ModuleCall(t, op, headers)
    \/ SetEnv
    \/ \E t \in TaskIds : Continue(t)
    \/ \E t \in TaskIds : \E body \in TokenBodies(tasks[t].req) : DeliverTokenResponse(t, body)
    \/ \E t \in TaskIds, e \in AxiosErrors : DeliverTokenError(t, e)
    \/ \E t \in TaskIds, status \in IntrospectStatuses, data \in IntrospectBodies :
            DeliverIntrospectResponse(t, status, data)
    \/ \E t \in TaskIds, e \in AxiosErrors : DeliverIntrospectError(t, e)
    \/ Tick

SpecModule == InitModule /\ [][NextModule]_vars

(***************************************************************************)
(* TokenManager (deprecated).  Its fields accessToken, agentSecretToken    *)
(* and tokenExpiration are the variables of the same names; _fetchPromise  *)
(* is null, a pending promise (of token request k) or a rejected one.      *)
(***************************************************************************)
ManagerOps == {"getAccessToken", "getAgentSecretToken"}

Pending(k) == <<"pending", k>>
Rejected == <<"rejected">>

\* new Error('Could not fetch tokens from Traylinx Sentinel')
CouldNotFetch == Thrown("Error", "", 0, <<"Could not fetch tokens from Traylinx Sentinel">>)

\* The test a token response must pass to be stored:
\* !(!access_token || !agent_secret_token || expires_in === undefined)
ManagerResponseAccepted(body) ==
    /\ body # Null
    /\ Truthy(body[2].access_token)
    /\ Truthy(body[2].agent_secret_token)
    /\ body[2].expires_in # Undefined

\* The caller of the token manager's accessor, given the accessor's settled
\* (or still waiting) task: IntrospectionService.validateToken posts the
\* introspection request with the token returned, and its catch block turns
\* a rejection into false; a direct call of the accessor is the task itself.
ManagerCaller(task) ==
    IF task.op # "IntrospectionService.validateToken" THEN task
    ELSE IF task.pc = "resolved"
    THEN [IdleTask EXCEPT !.op = task.op, !.pc = "awaitIntrospect", !.req = task.req,
                          !.local = task.result]
    ELSE IF task.pc = "rejected" THEN Resolve(task, Bool(FALSE))
    ELSE task

\* Mutant: the marker is not consulted; every caller starts a fetch.
MutNoFetchPromise == TRUE

\* The accessor's test of the in-flight marker: !this._fetchPromise
NoFetchPromise == fetchPromise = Null

\* getAccessToken / getAgentSecretToken up to their await.  With no promise
\* stored, _fetchTokens is called: it posts the token request and its promise
\* is stored; with the configuration missing it throws before any await, its
\* finally block runs at once, and the promise stored after it is rejected.
ManagerStart(t, op) ==
    /\ tasks[t].pc = "idle"
    /\ \A u \in TaskIds : u < t => tasks[u].pc # "idle"
    /\ LET which == FirstAccessor(op)
           task == [tasks[t] EXCEPT !.op = op, !.which = which]
       IN  IF ~AccessorFetches(which)
           THEN /\ tasks' = [tasks EXCEPT ![t] =
                        ManagerCaller(Resolve(task, IF which = "access" THEN accessToken
                                                    ELSE agentSecretToken))]
                /\ UNCHANGED <<postCount, fetchPromise>>
           ELSE IF ~NoFetchPromise
           THEN /\ tasks' = [tasks EXCEPT ![t] =
                        IF fetchPromise = Rejected THEN ManagerCaller(Reject(task, CouldNotFetch))
                        ELSE [task EXCEPT !.pc = "awaitFetch", !.req = fetchPromise[2]]]
                /\ UNCHANGED <<postCount, fetchPromise>>
           ELSE IF ~configValid
           THEN /\ fetchPromise' = Rejected
                /\ tasks' = [tasks EXCEPT ![t] = ManagerCaller(Reject(task, CouldNotFetch))]
                /\ UNCHANGED postCount
           ELSE /\ postCount' = postCount + 1
                /\ fetchPromise' = Pending(postCount + 1)
                /\ tasks' = [tasks EXCEPT ![t] = [task EXCEPT !.pc = "awaitFetch", !.req = postCount + 1]]
    /\ UNCHANGED <<now, accessToken, agentSecretToken, tokenExpiration, configValid, configVars, moduleVars>>

\* The task of every caller awaiting the promise of token request k, once
\* _fetchTokens has settled it: runnable on success, rejected on failure.
ManagerSettle(k, ok) ==
    [t \in TaskIds |->
        IF tasks[t].pc = "awaitFetch" /\ tasks[t].req = k
        THEN IF ok THEN [tasks[t] EXCEPT !.pc = "cont"]
             ELSE ManagerCaller(Reject(tasks[t], CouldNotFetch))
        ELSE tasks[t]]

\* The pending token request is answered 2xx with `body`: _fetchTokens stores
\* the tokens or throws, and its finally block clears the marker.
ManagerDeliverResponse(body) ==
    /\ fetchPromise # Null /\ fetchPromise # Rejected
    /\ NoMicrotaskPending
    /\ body \in TokenBodies(fetchPromise[2])
    /\ IF ManagerResponseAccepted(body)
       THEN /\ accessToken' = body[2].access_token
            /\ agentSecretToken' = body[2].agent_secret_token
            /\ tokenExpiration' = ExpirationOf(now, body[2].expires_in)
       ELSE UNCHANGED <<accessToken, agentSecretToken, tokenExpiration>>
    /\ tasks' = ManagerSettle(fetchPromise[2], ManagerResponseAccepted(body))
    /\ fetchPromise' = Null
    /\ UNCHANGED <<now, postCount, configValid, configVars, moduleVars>>

\* The pending token request fails.
ManagerDeliverError(e) ==
    /\ fetchPromise # Null /\ fetchPromise # Rejected
    /\ NoMicrotaskPending
    /\ tasks' = ManagerSettle(fetchPromise[2], FALSE)
    /\ fetchPromise' = Null
    /\ UNCHANGED <<now, accessToken, agentSecretToken, tokenExpiration, postCount, configValid, configVars, moduleVars>>

\* A caller resumes after its await: return this.accessToken (or
\* this.agentSecretToken).
ManagerResume(t) ==
    /\ tasks[t].pc = "cont"
    /\ tasks' = [tasks EXCEPT ![t] =
            ManagerCaller(Resolve(tasks[t], IF tasks[t].which = "access" THEN accessToken
                                            ELSE agentSecretToken))]
    /\ UNCHANGED <<now, accessToken, agentSecretToken, tokenExpiration, postCount, managerVars, configVars, moduleVars>>

InitManager ==
    /\ now = 0
    /\ accessToken = Null
    /\ agentSecretToken = Null
    /\ tokenExpiration = Null
    /\ postCount = 0
    /\ tasks = [t \in TaskIds |-> IdleTask]
    /\ fetchPromise = Null
    /\ configValid \in BOOLEAN
    \* TokenManager takes no options and has no retry interceptor
    /\ options = DefaultOptions
    /\ config = Config(DefaultOptions)
    /\ retry = [t \in TaskIds |-> NoRetry]
    /\ NoDefaultClient

NextManager ==
    \/ \E t \in TaskIds, op \in ManagerOps : ManagerStart(t, op)
    \/ \E body \in UNION {TokenBodies(k) : k \in 1..2 * MaxTasks} : ManagerDeliverResponse(body)
    \/ \E e \in AxiosErrors : ManagerDeliverError(e)
    \/ \E t \in TaskIds : ManagerResume(t)
    \/ Tick

SpecManager == InitManager /\ [][NextManager]_vars

(***************************************************************************)
(* IntrospectionService (deprecated): validateToken on top of a            *)
(* TokenManager.  It posts with the axios module itself (no retry          *)
(* interceptor), whose promise resolves for a 2xx status and rejects for   *)
(* any other.                                                              *)
(***************************************************************************)
\* Mutant: any truthy `active` counts.
MutIntrospectionResultTruthy(data) ==
    IF data \in {Null, Undefined} THEN Bool(FALSE)
    ELSE IF data[1] = "object" THEN Bool(Truthy(data[2].active))
    ELSE Bool(FALSE)

\* return response.data.active === true, inside the try: reading a property
\* of null throws, which the catch block turns into false; a property of a
\* string is undefined.
IntrospectionResult(data) ==
    IF data \in {Null, Undefined} THEN Bool(FALSE)
    ELSE IF data[1] = "object" THEN Bool(data[2].active = Bool(TRUE))
    ELSE Bool(FALSE)

\* The failures of the introspection request: each network code, and the
\* statuses 401, 403, 429, 500.
IntrospectionErrors ==
    { AxiosError(code, 0, TRUE) : code \in {"ECONNABORTED", "ENOTFOUND", "ECONNREFUSED"} } \cup
    { AxiosError("", status, TRUE) : status \in {401, 403, 429, 500} }

\* The introspection request of task t is answered 2xx.
IntrospectionDeliverResponse(t, data) ==
    /\ tasks[t].op = "IntrospectionService.validateToken"
    /\ tasks[t].pc = "awaitIntrospect"
    /\ NoMicrotaskPending
    /\ tasks' = [tasks EXCEPT ![t] = Resolve(tasks[t], IntrospectionResult(data))]
    /\ UNCHANGED <<now, accessToken, agentSecretToken, tokenExpiration, postCount, managerVars, configVars, moduleVars>>

\* The introspection request of task t fails: the catch block returns false.
IntrospectionDeliverError(t, e) ==
    /\ tasks[t].op = "IntrospectionService.validateToken"
    /\ tasks[t].pc = "awaitIntrospect"
    /\ NoMicrotaskPending
    /\ tasks' = [tasks EXCEPT ![t] = Resolve(tasks[t], Bool(FALSE))]
    /\ UNCHANGED <<now, accessToken, agentSecretToken, tokenExpiration, postCount, managerVars, configVars, moduleVars>>

\* validateToken calls of an IntrospectionService beside direct calls of its
\* token manager.
NextIntrospection ==
    \/ \E t \in TaskIds : ManagerStart(t, "IntrospectionService.validateToken")
    \/ \E t \in TaskIds : ManagerStart(t, "getAccessToken")
    \/ \E body \in UNION {TokenBodies(k) : k \in 1..2 * MaxTasks} : ManagerDeliverResponse(body)
    \/ \E e \in AxiosErrors : ManagerDeliverError(e)
    \/ \E t \in TaskIds : ManagerResume(t)
    \/ \E t \in TaskIds, data \in IntrospectBodies : IntrospectionDeliverResponse(t, data)
    \/ \E t \in TaskIds, e \in IntrospectionErrors : IntrospectionDeliverError(t, e)
    \/ Tick

SpecIntrospection == InitManager /\ [][NextIntrospection]_vars

(***************************************************************************)
(* Properties                                                              *)
(***************************************************************************)
Awaiting(t) == tasks[t].pc = "awaitFetch"
TokenOfRequest(op, k) == IF op = "getAccessToken" THEN AccessTokenOf(k) ELSE SecretTokenOf(k)
IssuedAccessTokens == {AccessTokenOf(k) : k \in 1..postCount}
IssuedSecretTokens == {SecretTokenOf(k) : k \in 1..postCount}
RequestedField(which) == IF which = "access" THEN "access_token" ELSE "agent_secret_token"
FieldsPresent(body) ==
    /\ body # Null
    /\ \A i \in 1..Len(RequiredFields) : body[2][RequiredFields[i]] # Undefined

\* C1: TraylinxAuthClient: the calls that found no valid cached token and are
\* waiting for a refresh all wait for one and the same token request (one
\* POST to /oauth/token, at most one refresh in flight).
C1_OneRefreshInFlight ==
    \A t, u \in TaskIds : (Awaiting(t) /\ Awaiting(u)) => tasks[t].req = tasks[u].req

\* C2: TokenManager: every caller waiting for a refresh waits for the one
\* stored _fetchPromise (no second fetch starts while one is in flight), each
\* token request was started by a caller that found no promise, and a caller
\* that awaited token request k resolves with the token of k's response.
C2_ManagerCoalesces ==
    /\ \A t \in TaskIds : Awaiting(t) => fetchPromise = Pending(tasks[t].req)
    /\ postCount = Cardinality({tasks[t].req : t \in TaskIds} \ {0})
    /\ \A t \in TaskIds :
          tasks[t].pc = "cont" =>
              /\ accessToken = AccessTokenOf(tasks[t].req)
              /\ agentSecretToken = SecretTokenOf(tasks[t].req)
    /\ \A t \in TaskIds :
          (tasks[t].pc = "resolved" /\ tasks[t].req # 0) =>
              tasks[t].result = TokenOfRequest(tasks[t].op, tasks[t].req)

\* C2 witness: a getAccessToken and a getAgentSecretToken call that waited for
\* the same, single token request have both resolved.
C2_Witness ==
    /\ postCount = 1
    /\ \E t, u \in TaskIds :
          /\ tasks[t].pc = "resolved" /\ tasks[t].op = "getAccessToken" /\ tasks[t].req = 1
          /\ tasks[u].pc = "resolved" /\ tasks[u].op = "getAgentSecretToken" /\ tasks[u].req = 1

\* C3: TokenManager: whenever no refresh is executing (no caller is waiting
\* for a token request), _fetchPromise is null, so the next call starts a new
\* refresh.
C3_MarkerClearedWhenIdle ==
    (\A t \in TaskIds : ~Awaiting(t)) => fetchPromise = Null

\* C4: TraylinxAuthClient: accessToken and agentSecretToken are both null or
\* both non-null.
C4_TokensBothOrNeither ==
    (accessToken = Null) <=> (agentSecretToken = Null)

\* C5: an accessor called while its cached token is non-null and
\* now < tokenExpiration issues no token request and resolves with the cached
\* value.
C5_CachedTokenServed ==
    [][\A t \in TaskIds :
          LET cached == IF tasks'[t].op = "getAccessToken" THEN accessToken ELSE agentSecretToken IN
          ( /\ tasks[t].pc = "idle" /\ tasks'[t].pc # "idle"
            /\ tasks'[t].op \in {"getAccessToken", "getAgentSecretToken"}
            /\ cached # Null
            /\ now < ToNumber(tokenExpiration) )
          => ( /\ postCount' = postCount
               /\ tasks'[t].pc = "resolved"
               /\ tasks'[t].result = cached )]_vars

\* C6: a refresh whose response carries the three fields stores
\* tokenExpiration = now + expires_in * 1000; with expires_in <= 0 the cache
\* is expired on arrival (now >= tokenExpiration), no error is raised and the
\* accessor returns the token the response carries for it, and an accessor
\* called on an expired cache issues a new token request.
C6_ExpiredOnArrival ==
    [][\A t \in TaskIds :
          /\ \A body \in TokenBodies(tasks[t].req) :
                (DeliverTokenResponse(t, body) /\ FieldsPresent(body)) =>
                    /\ tokenExpiration' = Num(now + body[2].expires_in[2] * 1000)
                    /\ body[2].expires_in[2] <= 0 =>
                          /\ now >= ToNumber(tokenExpiration')
                          /\ Truthy(body[2][RequestedField(tasks[t].which)]) =>
                                /\ tasks'[t].pc = "resolved"
                                /\ tasks[t].op \in {"getAccessToken", "getAgentSecretToken"} =>
                                      tasks'[t].result = body[2][RequestedField(tasks[t].which)]
          /\ ( /\ tasks[t].pc = "idle" /\ tasks'[t].pc # "idle"
               /\ tokenExpiration # Null /\ now >= ToNumber(tokenExpiration) )
             => (postCount' = postCount + 1 /\ tasks'[t].pc = "awaitFetch")]_vars

\* C6 witness: a first call has returned the token of a refresh that arrived
\* expired, and the next call is waiting for a second token request.
C6_Witness ==
    /\ accessToken = AccessTokenOf(1)
    /\ ToNumber(tokenExpiration) <= now
    /\ \E t, u \in TaskIds :
          /\ tasks[t].pc = "resolved" /\ tasks[t].req = 1
          /\ tasks[t].result = AccessTokenOf(1)
          /\ Awaiting(u) /\ tasks[u].req = 2

\* C7: the object getAgentRequestHeaders returns has exactly the keys
\* X-Agent-Secret-Token (an agent secret token of the authority) and
\* X-Agent-User-Id, no Authorization key, and no access token among its values.
C7_AgentHeadersNoAccessToken ==
    \A t \in TaskIds :
        (tasks[t].op = "getAgentRequestHeaders" /\ tasks[t].pc = "resolved") =>
            LET h == tasks[t].result[2] IN
            /\ DOMAIN h = {"X-Agent-Secret-Token", "X-Agent-User-Id"}
            /\ h["X-Agent-Secret-Token"] \in IssuedSecretTokens
            /\ h["X-Agent-User-Id"] = AgentUserId
            /\ \A k \in DOMAIN h :
                  /\ h[k] # accessToken
                  /\ h[k] \notin IssuedAccessTokens
                  /\ h[k] \notin {Bearer(a) : a \in IssuedAccessTokens}

\* C7 witness: getAgentRequestHeaders has returned while an access token is cached.
C7_Witness ==
    /\ Truthy(accessToken)
    /\ \E t \in TaskIds : tasks[t].op = "getAgentRequestHeaders" /\ tasks[t].pc = "resolved"

\* C8: the object getA2AHeaders returns has exactly the keys Authorization and
\* X-Agent-User-Id; the Authorization value is 'Bearer ' followed by an agent
\* secret token, never by the access token.
C8_A2ABearerIsSecretToken ==
    \A t \in TaskIds :
        (tasks[t].op = "getA2AHeaders" /\ tasks[t].pc = "resolved") =>
            LET h == tasks[t].result[2] IN
            /\ DOMAIN h = {"Authorization", "X-Agent-User-Id"}
            /\ h["Authorization"] \in {Bearer(x) : x \in IssuedSecretTokens}
            /\ h["Authorization"] # Bearer(accessToken)
            /\ h["X-Agent-User-Id"] = AgentUserId

\* C8 witness: getA2AHeaders has returned while an access token is cached.
C8_Witness ==
    /\ Truthy(accessToken)
    /\ \E t \in TaskIds : tasks[t].op = "getA2AHeaders" /\ tasks[t].pc = "resolved"

ActiveTrue == Obj([active |-> Bool(TRUE)])

\* C9: validateToken resolves true exactly when the introspection answer has
\* status 200 and a body whose active field is the boolean true; with status
\* 200 and active false, the string "true" or no active key it resolves false.
C9_ActiveStrictlyTrue ==
    [][\A t \in TaskIds :
          /\ \A status \in IntrospectStatuses, data \in IntrospectBodies :
                DeliverIntrospectResponse(t, status, data) =>
                    /\ (tasks'[t].pc = "resolved" /\ tasks'[t].result = Bool(TRUE))
                            <=> (status = 200 /\ data = ActiveTrue)
                    /\ (status = 200 /\ data \in {Obj([active |-> Bool(FALSE)]),
                                                   Obj([active |-> <<"string", "true">>]),
                                                   Obj([active |-> Undefined])})
                            => (tasks'[t].pc = "resolved" /\ tasks'[t].result = Bool(FALSE))
          /\ (tasks[t].pc # "resolved" /\ tasks'[t].pc = "resolved" /\ tasks'[t].result = Bool(TRUE))
                => DeliverIntrospectResponse(t, 200, ActiveTrue)]_vars

\* C9 witness: one validateToken call has resolved true and another false.
C9_Witness ==
    \E t, u \in TaskIds :
        /\ tasks[t].pc = "resolved" /\ tasks[t].result = Bool(TRUE)
        /\ tasks[u].pc = "resolved" /\ tasks[u].result = Bool(FALSE)

\* C10 as claimed: an introspection answer of status 200 with a null body
\* makes validateToken resolve false.
C10_NullBodyResolvesFalse ==
    [][\A t \in TaskIds :
          DeliverIntrospectResponse(t, 200, Null) =>
              (tasks'[t].pc = "resolved" /\ tasks'[t].result = Bool(FALSE))]_vars

\* C10 as amended: an introspection answer of status 200 with a null body
\* makes validateToken raise AuthenticationError INVALID_VALIDATION_RESPONSE;
\* it does not resolve.
C10_NullBodyRaises ==
    [][\A t \in TaskIds :
          DeliverIntrospectResponse(t, 200, Null) =>
              /\ tasks'[t].pc = "rejected"
              /\ tasks'[t].error.name = "AuthenticationError"
              /\ tasks'[t].error.code = "INVALID_VALIDATION_RESPONSE"]_vars

\* C10 witness: a validateToken call has been rejected for a null body.
C10_Witness ==
    \E t \in TaskIds :
        /\ tasks[t].op = "validateToken" /\ tasks[t].pc = "rejected"
        /\ tasks[t].error.code = "INVALID_VALIDATION_RESPONSE"

Raised(task, name) == task.pc = "rejected" /\ task.error.name = name
RaisedTyped(task) == task.pc = "rejected" /\ IsTraylinxAuthError(task.error)

\* C11: validateToken raises AuthenticationError when the introspection
\* endpoint answers 401, as a resolved response or as a rejected request; a
\* transport failure of the introspection request and a failed token refresh
\* are raised as errors of the taxonomy; validateToken resolves false only
\* on an introspection answer whose status is not 401.
C11_IntrospectionFailuresRaise ==
    [][\A t \in TaskIds :
          /\ \A data \in IntrospectBodies :
                DeliverIntrospectResponse(t, 401, data) => Raised(tasks'[t], "AuthenticationError")
          /\ \A e \in AxiosErrors :
                DeliverIntrospectError(t, e) =>
                    /\ RaisedTyped(tasks'[t])
                    /\ e.status = 401 => Raised(tasks'[t], "AuthenticationError")
          /\ \A e \in AxiosErrors : DeliverTokenError(t, e) => RaisedTyped(tasks'[t])
          /\ \A body \in TokenBodies(tasks[t].req) :
                DeliverTokenResponse(t, body) => (tasks'[t].pc = "cont" \/ RaisedTyped(tasks'[t]))
          /\ (tasks[t].pc # "resolved" /\ tasks'[t].pc = "resolved" /\ tasks'[t].result = Bool(FALSE))
                => \E status \in IntrospectStatuses \ {401}, data \in IntrospectBodies :
                        DeliverIntrospectResponse(t, status, data)]_vars

\* C11 witness: one validateToken call was rejected for a resolved 401 answer
\* and another for a rejected 401 introspection request.
C11_Witness ==
    \E t, u \in TaskIds :
        /\ tasks[t].op = "validateToken" /\ Raised(tasks[t], "AuthenticationError")
        /\ tasks[t].error.code = "INVALID_ACCESS_TOKEN"
        /\ tasks[u].op = "validateToken"
        /\ tasks[u].pc = "rejected"
        /\ tasks[u].error = HandleRequestError(AxiosError("", 401, TRUE), "token validation")

\* The credentials a request presents: the value of its custom secret-token
\* header and, to requireDualAuth, the text after 'Bearer ' of its
\* Authorization header; each with the request's agent user id.
PresentedCredentials(op, headers) ==
    LET auth == OrEmpty(HeaderValue(headers, "authorization"))
        userId == HeaderValue(headers, "x-agent-user-id")
    IN  { <<HeaderValue(headers, "x-agent-secret-token"), userId>> } \cup
        ( IF op = "requireDualAuth" /\ StartsWithBearer(auth)
          THEN { <<Trim(auth[3]), userId>> } ELSE {} )

\* C12: a middleware calls next() only when its validation resolved true,
\* and the validation resolves true only on an introspection answer of
\* status 200 with active === true to the request that carried a credential
\* and user id presented in the headers; validation false gives 401 with a
\* JSON error body; a raised error gives 500 {error: 'Internal server error'}
\* and no next().
C12_MiddlewareFailClosed ==
    [][\A t \in TaskIds :
          /\ MiddlewareRespond(t) =>
                LET r == tasks'[t].result[2] IN
                /\ r.next <=> (tasks[t].pc = "resolved" /\ tasks[t].result = Bool(TRUE))
                /\ (tasks[t].pc = "resolved" /\ tasks[t].result = Bool(FALSE))
                        => (r.status = 401 /\ r.error # "")
                /\ tasks[t].pc = "rejected"
                        => (r.status = 500 /\ r.error = "Internal server error")
                /\ r.next => r.status = 0
          /\ ( /\ tasks[t].op \in MiddlewareOps
               /\ tasks[t].pc # "resolved" /\ tasks'[t].pc = "resolved"
               /\ tasks'[t].result = Bool(TRUE) )
                => /\ DeliverIntrospectResponse(t, 200, ActiveTrue)
                   /\ tasks[t].args \in PresentedCredentials(tasks[t].op, tasks[t].headers)
                   /\ Truthy(tasks[t].args[1]) /\ Truthy(tasks[t].args[2])]_vars

\* C12 witness: one middleware invocation has called next() and another has
\* answered 500 after a raised error.
C12_Witness ==
    \E t, u \in TaskIds :
        /\ tasks[t].op = "requireA2AAuth" /\ tasks[t].pc = "responded" /\ tasks[t].result[2].next
        /\ tasks[u].op = "requireDualAuth" /\ tasks[u].pc = "responded"
        /\ tasks[u].result[2].status = 500

\* The RPC request task t has sent and is waiting for.
RpcInFlight(t) == tasks[t].op = "rpcCall" /\ tasks[t].pc = "awaitRpc"
CredentialKeys(t) == DOMAIN tasks[t].args.headers[2] \ {"Content-Type"}
BearerShape(t) ==
    /\ CredentialKeys(t) = {"Authorization"}
    /\ tasks[t].args.headers[2]["Authorization"] \in {Bearer(a) : a \in IssuedAccessTokens}
AgentShape(t) ==
    /\ CredentialKeys(t) = {"X-Agent-Secret-Token", "X-Agent-User-Id"}
    /\ tasks[t].args.headers[2]["X-Agent-Secret-Token"] \in IssuedSecretTokens
    /\ tasks[t].args.headers[2]["X-Agent-User-Id"] = AgentUserId

\* C13: every RPC request rpcCall sends carries exactly one credential shape:
\* Authorization: Bearer <access token> alone, or X-Agent-Secret-Token with
\* X-Agent-User-Id alone; never both, never neither.
C13_ExactlyOneCredentialShape ==
    \A t \in TaskIds : RpcInFlight(t) => (BearerShape(t) \/ AgentShape(t))

\* C13 witness: two RPC requests are in flight, one of each shape.
C13_Witness ==
    \E t, u \in TaskIds :
        RpcInFlight(t) /\ BearerShape(t) /\ RpcInFlight(u) /\ AgentShape(u)

\* C14 as claimed: an RPC request to the authority's RPC endpoint never
\* carries X-Agent-Secret-Token, and one to any other URL never carries
\* Authorization.
C14_UrlDecidesCredential ==
    \A t \in TaskIds :
        RpcInFlight(t) =>
            IF tasks[t].args.url = AuthorityRpcUrl
            THEN "X-Agent-Secret-Token" \notin CredentialKeys(t)
            ELSE "Authorization" \notin CredentialKeys(t)

\* C14 as amended: with includeAgentCredentials omitted or null, an RPC
\* request to the authority's RPC endpoint (the default URL included) never
\* carries X-Agent-Secret-Token and one to any other URL never carries
\* Authorization; an explicit true sends the agent credentials to the
\* authority's endpoint too, an explicit false the access token to any URL.
C14_UrlDecidesWhenNotExplicit ==
    \A t \in TaskIds :
        RpcInFlight(t) =>
            /\ tasks[t].args.includeAgentCredentials = Null =>
                  IF tasks[t].args.url = AuthorityRpcUrl
                  THEN "X-Agent-Secret-Token" \notin CredentialKeys(t)
                  ELSE "Authorization" \notin CredentialKeys(t)
            /\ (tasks[t].args.includeAgentCredentials = Bool(TRUE) /\ tasks[t].args.url = AuthorityRpcUrl)
                  => "X-Agent-Secret-Token" \in CredentialKeys(t)
            /\ (tasks[t].args.includeAgentCredentials = Bool(FALSE) /\ tasks[t].args.url # AuthorityRpcUrl)
                  => "Authorization" \in CredentialKeys(t)

\* C14 witness: with includeAgentCredentials null, a request to the default
\* URL and a request to a peer are in flight.
C14_Witness ==
    \E t, u \in TaskIds :
        /\ RpcInFlight(t) /\ tasks[t].args.includeAgentCredentials = Null
        /\ tasks[t].args.rpcUrl = Null /\ tasks[t].args.url = AuthorityRpcUrl
        /\ RpcInFlight(u) /\ tasks[u].args.includeAgentCredentials = Null
        /\ tasks[u].args.url = PeerRpcUrl

\* C15: an explicit includeAgentCredentials alone decides the credential
\* shape, whatever the URL; with the argument null the shape follows the
\* literal equality of the URL with {apiBaseUrl}/a2a/rpc.
C15_ExplicitArgumentOverrides ==
    \A t \in TaskIds :
        RpcInFlight(t) =>
            LET a == tasks[t].args IN
            /\ a.includeAgentCredentials = Bool(TRUE) => AgentShape(t)
            /\ a.includeAgentCredentials = Bool(FALSE) => BearerShape(t)
            /\ a.includeAgentCredentials = Null =>
                  IF a.rpcUrl \in {Null, AuthorityRpcUrl} THEN BearerShape(t) ELSE AgentShape(t)

\* C15 witness: an explicit true has sent agent credentials to the authority's
\* endpoint and an explicit false the access token to a peer.
C15_Witness ==
    \E t, u \in TaskIds :
        /\ RpcInFlight(t) /\ tasks[t].args.includeAgentCredentials = Bool(TRUE)
        /\ tasks[t].args.url = AuthorityRpcUrl /\ AgentShape(t)
        /\ RpcInFlight(u) /\ tasks[u].args.includeAgentCredentials = Bool(FALSE)
        /\ tasks[u].args.url = PeerRpcUrl /\ BearerShape(u)

\* C16: an RPC answer carrying an error object is raised, never returned:
\* code -32600 as ValidationError INVALID_RPC_REQUEST, -32601 as
\* ValidationError METHOD_NOT_FOUND, -32602 as ValidationError
\* INVALID_RPC_PARAMS, and any other numeric code as a base TraylinxAuthError
\* whose code is that number as a string.
C16_RpcErrorsMapped ==
    [][\A t \in TaskIds : \A code \in RpcErrorCodes :
          DeliverRpcResponse(t, RpcError(code)) =>
              /\ tasks'[t].pc = "rejected"
              /\ code = Num(-32600) =>
                    (Raised(tasks'[t], "ValidationError") /\ tasks'[t].error.code = "INVALID_RPC_REQUEST")
              /\ code = Num(-32601) =>
                    (Raised(tasks'[t], "ValidationError") /\ tasks'[t].error.code = "METHOD_NOT_FOUND")
              /\ code = Num(-32602) =>
                    (Raised(tasks'[t], "ValidationError") /\ tasks'[t].error.code = "INVALID_RPC_PARAMS")
              /\ (code[1] = "number" /\ code \notin {Num(-32600), Num(-32601), Num(-32602)}) =>
                    (Raised(tasks'[t], "TraylinxAuthError") /\ tasks'[t].error.code = StringOf(code))]_vars

\* The header maps that differ from a given one only in the case of names.
SameUpToCase(h1, h2) ==
    /\ Len(h1) = Len(h2)
    /\ \A i \in 1..Len(h1) :
          ToLowerCase(h1[i][1]) = ToLowerCase(h2[i][1]) /\ h1[i][2] = h2[i][2]
CaseVariants == [h \in HeaderMaps |-> {h2 \in HeaderMaps : SameUpToCase(h, h2)}]

\* The value of the header of a given lower-case name, whatever its case.
HeaderNamed(headers, name) == NormalizedHeaders(headers)[name]

\* Task t makes its call of method op in this step.
Called(t, op) == tasks[t].pc = "idle" /\ tasks'[t].pc # "idle" /\ tasks'[t].op = op

\* The classification as specified: Bearer needs the prefix and a user id,
\* Custom a secret token and a user id.
SpecifiedMode(headers) ==
    IF StartsWithBearer(OrEmpty(HeaderNamed(headers, "authorization")))
       /\ Truthy(HeaderNamed(headers, "x-agent-user-id"))
    THEN "bearer"
    ELSE IF Truthy(HeaderNamed(headers, "x-agent-secret-token"))
            /\ Truthy(HeaderNamed(headers, "x-agent-user-id"))
    THEN "custom"
    ELSE "none"

\* C17: detectAuthMode returns 'bearer' iff the Authorization value begins
\* with 'Bearer ' and an agent-user-id header is present, otherwise 'custom'
\* iff a secret-token header and an agent-user-id header are present,
\* otherwise 'none'.
C17_ModeAsSpecified ==
    [][\A t \in TaskIds :
          Called(t, "detectAuthMode") =>
              \A h \in HeaderMaps :
                  CallDetectAuthMode(t, h) => tasks'[t].result = <<"string", SpecifiedMode(h)>>]_vars

\* What validateA2ARequest(h) did in this step: called validateToken with
\* `credential`, or (credential Undefined) returned false with no call.
Validated(t, credential) ==
    IF credential = Undefined
    THEN tasks'[t].pc = "resolved" /\ tasks'[t].result = Bool(FALSE) /\ postCount' = postCount
    ELSE tasks'[t].pc \in {"awaitFetch", "cont"} /\ tasks'[t].args = credential

\* C18: detectAuthMode and validateA2ARequest give the same mode and the
\* same validateToken call for header maps that differ only in the letter
\* case of their names; the value's prefix is compared case-sensitively
\* ('bearer x' is not a Bearer credential).
C18_HeaderNamesCaseInsensitive ==
    [][\A t \in TaskIds :
          /\ Called(t, "detectAuthMode") =>
                \A h \in HeaderMaps :
                    CallDetectAuthMode(t, h) =>
                        /\ \A h2 \in CaseVariants[h] :
                              tasks'[t].result = <<"string", DetectAuthMode(h2)>>
                        /\ (\A i \in 1..Len(h) : ~StartsWithBearer(h[i][2]))
                              => tasks'[t].result # <<"string", "bearer">>
          /\ Called(t, "validateA2ARequest") =>
                \A h \in HeaderMaps :
                    ValidateA2ARequest(t, h) =>
                        \A h2 \in CaseVariants[h] : Validated(t, A2ACredential(h2))]_vars

\* C18 witness: validateA2ARequest has called validateToken with the Bearer
\* credential while another call returned mode 'bearer'; both are reached
\* from header maps written in any case.
C18_Witness ==
    /\ \E h \in HeaderMaps : Cardinality(CaseVariants[h]) > 1 /\ DetectAuthMode(h) = "bearer"
    /\ \E t, u \in TaskIds :
          /\ tasks[t].op = "detectAuthMode" /\ tasks[t].result = <<"string", "bearer">>
          /\ tasks[u].op = "validateA2ARequest" /\ tasks[u].pc = "awaitIntrospect"
          /\ tasks[u].args = <<PeerToken, PeerUserId>>

\* C19: validateA2ARequest agrees with detectAuthMode: mode 'bearer' means
\* validateToken(trimmed text after 'Bearer ', agent-user-id), 'custom' means
\* validateToken(secret-token value, agent-user-id), 'none' means false with
\* no validateToken call.
C19_ValidationFollowsMode ==
    [][\A t \in TaskIds, h \in HeaderMaps :
          (Called(t, "validateA2ARequest") /\ ValidateA2ARequest(t, h)) =>
              LET mode == DetectAuthMode(h) IN
              Validated(t,
                  CASE mode = "bearer" ->
                         <<Trim(OrEmpty(HeaderNamed(h, "authorization"))[3]), HeaderNamed(h, "x-agent-user-id")>>
                    [] mode = "custom" ->
                         <<HeaderNamed(h, "x-agent-secret-token"), HeaderNamed(h, "x-agent-user-id")>>
                    [] OTHER -> Undefined)]_vars

\* The headers carry a Bearer credential (an Authorization value 'Bearer '
\* followed by a token) or a custom one (a secret-token header), each with an
\* agent-user-id header.
CarriesCredential(headers) ==
    /\ \E i \in 1..Len(headers) :
          ToLowerCase(headers[i][1]) = "x-agent-user-id" /\ Truthy(headers[i][2])
    /\ \E i \in 1..Len(headers) :
          \/ /\ ToLowerCase(headers[i][1]) = "authorization"
             /\ StartsWithBearer(headers[i][2]) /\ Truthy(Trim(headers[i][2][3]))
          \/ /\ ToLowerCase(headers[i][1]) = "x-agent-secret-token"
             /\ Truthy(headers[i][2])

\* C20: when the headers carry neither credential, validateA2ARequest
\* resolves false at once: no validateToken call, no token request, no
\* introspection request.
C20_NoCredentialNoNetwork ==
    [][\A t \in TaskIds, h \in HeaderMaps :
          (Called(t, "validateA2ARequest") /\ ~CarriesCredential(h) /\ ValidateA2ARequest(t, h)) =>
              /\ tasks'[t].pc = "resolved" /\ tasks'[t].result = Bool(FALSE)
              /\ postCount' = postCount
              /\ tasks'[t].args = Undefined]_vars

\* C20 witness: a validateA2ARequest call has resolved false before any
\* token request was ever issued.
C20_Witness ==
    /\ postCount = 0
    /\ \E h \in HeaderMaps : h # <<>> /\ ~CarriesCredential(h)
    /\ \E t \in TaskIds :
          tasks[t].op = "validateA2ARequest" /\ tasks[t].pc = "resolved"
          /\ tasks[t].result = Bool(FALSE)

\* Every name of the header map is in lower case, as an HTTP server
\* delivers req.headers.
LowerCased(headers) == \A i \in 1..Len(headers) : headers[i][1] \in LowerCaseNames

C22_LegacyNamesCaseInsensitive ==
    [][\A t \in TaskIds :
          Called(t, "index.validateA2ARequest") =>
              \A h \in HeaderMaps :
                  IndexValidateA2ARequest(t, h) =>
                      \A h2 \in CaseVariants[h] : Validated(t, IndexA2ACredential(h2))]_vars

C25_ZeroMaxRetriesNeverRetries ==
    options.maxRetries = Num(0) => \A t \in TaskIds : retry[t].count = 0

\* C26: a token request is attempted at most 1 + maxRetries times: the
\* interceptor retries only a retryable error while the request's counter is
\* below maxRetries, adding one to the counter; otherwise the call is
\* rejected with that last error (normalised); and every call waiting for a
\* token request is eventually settled.
C26_BoundedRetries ==
    /\ [](\A t \in TaskIds : retry[t].count <= config.maxRetries)
    /\ [][\A t \in TaskIds, e \in AttemptErrors :
            RetryInterceptor(t, e) =>
                IF (e.code = "ECONNABORTED" \/ e.status = 503) /\ retry[t].count < config.maxRetries
                THEN /\ retry'[t].count = retry[t].count + 1
                     /\ Awaiting(t)' /\ tasks'[t].req = tasks[t].req
                ELSE /\ tasks'[t].pc = "rejected"
                     /\ tasks'[t].error = HandleRequestError(e, "token fetch")]_vars
    /\ \A t \in TaskIds : Awaiting(t) ~> (tasks[t].pc \in {"resolved", "rejected"})

\* C26 witness: a call has been rejected with the timeout of the last
\* attempt while another token request is in its last permitted retry.
C26_Witness ==
    \E t, u \in TaskIds :
        /\ tasks[t].pc = "rejected" /\ tasks[t].error.code = "TIMEOUT"
        /\ Awaiting(u) /\ retry[u].count = config.maxRetries /\ ~retry[u].sleeping

\* C27: on a client constructed with cacheTokens = false every
\* getAccessToken / getAgentSecretToken call issues a token request.
C27_CacheTokensOffAlwaysRefreshes ==
    [][\A t \in TaskIds :
          ( /\ options.cacheTokens = Bool(FALSE)
            /\ (Called(t, "getAccessToken") \/ Called(t, "getAgentSecretToken")) )
          => (postCount' = postCount + 1 /\ Awaiting(t)')]_vars

\* C28: when the authority answers the introspection request of a
\* validateToken call with 401, the access token the request carried does not
\* stay in the cache and the call is not failed at once: it goes on with
\* freshly fetched tokens.
C28_RejectedTokenNotReused ==
    [][\A t \in TaskIds :
          ( /\ tasks[t].pc = "awaitIntrospect"
            /\ tasks[t].local = accessToken
            /\ \/ \E data \in IntrospectBodies : DeliverIntrospectResponse(t, 401, data)
               \/ DeliverIntrospectError(t, AxiosError("", 401, TRUE)) )
          => (accessToken' # tasks[t].local /\ tasks'[t].pc # "rejected")]_vars

\* The required fields a token response lacks: all of them when it has no
\* body, else those its body does not hold.
Lacking(body) ==
    IF body = Null THEN RequiredFields
    ELSE SelectSeq(RequiredFields, LAMBDA f : body[2][f] = Undefined)

\* C29: a token response lacking any of access_token, agent_secret_token,
\* expires_in fails the refresh with an error whose message names exactly the
\* fields it lacks, and leaves accessToken, agentSecretToken and
\* tokenExpiration as they were.
C29_MissingFieldsNamed ==
    [][\A t \in TaskIds : \A body \in TokenBodies(tasks[t].req) :
          (Lacking(body) # <<>> /\ DeliverTokenResponse(t, body)) =>
              /\ tasks'[t].pc = "rejected"
              /\ tasks'[t].error.message = <<"Invalid token response: missing fields", Lacking(body)>>
              /\ UNCHANGED <<accessToken, agentSecretToken, tokenExpiration>>]_vars

\* A resolved getAccessToken / getAgentSecretToken call holds a non-empty
\* string.
AccessorsResolveTokens ==
    \A t \in TaskIds :
        (tasks[t].op \in {"getAccessToken", "getAgentSecretToken"} /\ tasks[t].pc = "resolved") =>
            (tasks[t].result[1] = "string" /\ tasks[t].result # EmptyString)

\* C30: getAccessToken and getAgentSecretToken never resolve with a null or
\* empty token; when the refresh a call waited for stores its response
\* without raising and the token the call asked for is null or empty in it,
\* the call is rejected with TokenExpiredError TOKEN_UNAVAILABLE.
C30_NeverNullToken ==
    /\ []AccessorsResolveTokens
    /\ [][\A t \in TaskIds : \A body \in TokenBodies(tasks[t].req) :
            ( /\ tasks[t].op \in {"getAccessToken", "getAgentSecretToken"}
              /\ DeliverTokenResponse(t, body)
              /\ Lacking(body) = <<>>
              /\ body[2][RequestedField(tasks[t].which)] \in {Null, EmptyString} )
            => ( /\ tasks'[t].pc = "rejected"
                 /\ tasks'[t].error.name = "TokenExpiredError"
                 /\ tasks'[t].error.code = "TOKEN_UNAVAILABLE" )]_vars

\* C30 witness: one call was rejected with TOKEN_UNAVAILABLE after a refresh
\* that stored a null or empty token, and a later call has resolved with the
\* token of its own refresh.
C30_Witness ==
    \E t, u \in TaskIds :
        /\ tasks[t].pc = "rejected" /\ tasks[t].error.code = "TOKEN_UNAVAILABLE" /\ tasks[t].req = 1
        /\ tasks[u].op \in {"getAccessToken", "getAgentSecretToken"} /\ tasks[u].pc = "resolved"
        /\ tasks[u].req = 2 /\ tasks[u].result = TokenOfRequest(tasks[u].op, 2)

\* C31: IntrospectionService.validateToken never rejects; it resolves true
\* exactly when the introspection request is answered with a body that is an
\* object whose active is the boolean true, and false when the token manager
\* fails, when the request fails (timeout, DNS, connection, 401, 403, 429,
\* 5xx) and when the body is null or not an object.
C31_IntrospectionNeverRejects ==
    /\ [](\A t \in TaskIds :
            tasks[t].op = "IntrospectionService.validateToken" =>
                /\ tasks[t].pc # "rejected"
                /\ tasks[t].pc = "resolved" => tasks[t].result \in {Bool(TRUE), Bool(FALSE)})
    /\ [][\A t \in TaskIds :
            tasks[t].op = "IntrospectionService.validateToken" =>
                /\ \A data \in IntrospectBodies :
                      IntrospectionDeliverResponse(t, data) =>
                          /\ tasks'[t].pc = "resolved"
                          /\ tasks'[t].result = Bool(TRUE) <=> data = Obj([active |-> Bool(TRUE)])
                /\ (tasks[t].pc # "resolved" /\ tasks'[t].pc = "resolved"
                                             /\ tasks'[t].result = Bool(TRUE)) =>
                      \E data \in IntrospectBodies : IntrospectionDeliverResponse(t, data)
                /\ \A e \in IntrospectionErrors :
                      IntrospectionDeliverError(t, e) =>
                          (tasks'[t].pc = "resolved" /\ tasks'[t].result = Bool(FALSE))
                /\ (tasks[t].pc = "awaitFetch" /\ \E e \in AxiosErrors : ManagerDeliverError(e)) =>
                      (tasks'[t].pc = "resolved" /\ tasks'[t].result = Bool(FALSE))]_vars

\* C31 witness: one validateToken call has resolved true, and another has
\* resolved false without a token of the manager (the token request failed or
\* the configuration is missing).
C31_Witness ==
    \E t, u \in TaskIds :
        /\ tasks[t].op = "IntrospectionService.validateToken" /\ tasks[t].pc = "resolved"
        /\ tasks[t].result = Bool(TRUE)
        /\ tasks[u].op = "IntrospectionService.validateToken" /\ tasks[u].pc = "resolved"
        /\ tasks[u].result = Bool(FALSE) /\ accessToken # Null /\ postCount = 2

\* The interceptor rejects the token request of task t with e in this step
\* (it does not retry), so that _fetchTokens hands e to _handleRequestError.
RejectsWith(t, e) ==
    /\ RetryInterceptor(t, e)
    /\ tasks'[t].pc = "rejected"

\* The task was rejected with an error of this class and code.
RaisedAs(task, name, code) ==
    task.pc = "rejected" /\ task.error.name = name /\ task.error.code = code

\* C32: _handleRequestError always throws, and what it throws follows the
\* table: by code first (ECONNABORTED, ENOTFOUND, ECONNREFUSED, ECONNRESET),
\* else by response status (401, 429, 5xx, any other), else NO_RESPONSE when
\* the request was sent, else the base error UNKNOWN_ERROR.
C32_ErrorClassification ==
    [][\A t \in TaskIds :
          (Awaiting(t) /\ tasks'[t].pc = "rejected") =>
              \A e \in ClassifiedErrors :
                  RejectsWith(t, e) =>
                      LET task == tasks'[t] IN
                      CASE e.code = "ECONNABORTED" -> RaisedAs(task, "NetworkError", "TIMEOUT")
                        [] e.code = "ENOTFOUND" -> RaisedAs(task, "NetworkError", "DNS_ERROR")
                        [] e.code = "ECONNREFUSED" -> RaisedAs(task, "NetworkError", "CONNECTION_REFUSED")
                        [] e.code = "ECONNRESET" -> RaisedAs(task, "NetworkError", "CONNECTION_RESET")
                        [] OTHER ->
                            CASE e.status = 401 -> RaisedAs(task, "AuthenticationError", "INVALID_CREDENTIALS")
                              [] e.status = 429 -> RaisedAs(task, "NetworkError", "RATE_LIMIT")
                              [] e.status \in 500..599 -> RaisedAs(task, "NetworkError", "SERVER_ERROR")
                              [] e.status \notin {0, 401, 429} \cup (500..599) ->
                                    RaisedAs(task, "NetworkError", "HTTP_ERROR")
                              [] e.status = 0 /\ e.request -> RaisedAs(task, "NetworkError", "NO_RESPONSE")
                              [] OTHER -> RaisedAs(task, "TraylinxAuthError", "UNKNOWN_ERROR")]_vars

\* C32 witness: calls have been rejected with a timeout, with
\* INVALID_CREDENTIALS, and (after the last retry) with SERVER_ERROR and
\* UNKNOWN_ERROR reached in other runs; here two of them side by side.
C32_Witness ==
    \E t, u \in TaskIds :
        /\ RaisedAs(tasks[t], "TraylinxAuthError", "UNKNOWN_ERROR")
        /\ RaisedAs(tasks[u], "NetworkError", "SERVER_ERROR") /\ tasks[u].error.statusCode = 599

\* An error as a transport produces it: a network code comes without a
\* response.
CodeOrResponse(e) ==
    ~(e.code \in {"ECONNABORTED", "ENOTFOUND", "ECONNREFUSED", "ECONNRESET", "ETIMEDOUT"}
      /\ e.status # 0)

\* C33: the interceptor retries only errors that _handleRequestError turns
\* into a NetworkError: an error it would turn into AuthenticationError,
\* ValidationError, TokenExpiredError or the base error is never retried.
C33_OnlyNetworkErrorsRetried ==
    [][\A t \in TaskIds :
          (Awaiting(t) /\ retry'[t].count = retry[t].count + 1) =>
              \A e \in ClassifiedErrors :
                  ( /\ CodeOrResponse(e)
                    /\ RetryInterceptor(t, e)
                    /\ retry'[t].count = retry[t].count + 1 )
                  => HandleRequestError(e, "token fetch").name = "NetworkError"]_vars

\* _calculateRetryDelay(n) has returned for task t.
DelayOf(t) == tasks[t].result[2]
ExponentialDelayOf(t) == config.retryDelay * Pow2(tasks[t].args[2] - 1)
DelayCalculated(t) == tasks[t].op = "_calculateRetryDelay" /\ tasks[t].pc = "resolved"

\* C34 as stated: every delay lies in [base*2^(n-1), base*2^(n-1)*1.1].
C34_DelayInJitterInterval ==
    \A t \in TaskIds :
        DelayCalculated(t) =>
            /\ ExponentialDelayOf(t) <= DelayOf(t)
            /\ 10 * DelayOf(t) <= 11 * ExponentialDelayOf(t)

\* C34 amended: every delay is at most 30000 and lies between
\* min(base*2^(n-1), 30000) and min(base*2^(n-1)*1.1, 30000), so it is in
\* the jitter interval unless the cap cuts it; and of two delays of one
\* client the one of the larger n is not the smaller.
C34_DelayCappedAndMonotone ==
    /\ \A t \in TaskIds :
          DelayCalculated(t) =>
              /\ DelayOf(t) <= 30000
              /\ Min(ExponentialDelayOf(t), 30000) <= DelayOf(t)
              /\ 10 * DelayOf(t) <= Min(11 * ExponentialDelayOf(t), 300000)
    /\ \A t, u \in TaskIds :
          (DelayCalculated(t) /\ DelayCalculated(u) /\ tasks[t].args[2] <= tasks[u].args[2]
                /\ tasks[t].args[2] # tasks[u].args[2])
          => DelayOf(t) <= DelayOf(u)

\* C34 witness: with base 10000 the delay of retry 2 carries its jitter
\* (20000 < delay < 30000) and the delay of retry 3 is the cap.
C34_Witness ==
    /\ config.retryDelay = 10000
    /\ \E t, u \in TaskIds :
          /\ DelayCalculated(t) /\ tasks[t].args = Num(2)
          /\ DelayOf(t) > 20000 /\ DelayOf(t) < 30000
          /\ DelayCalculated(u) /\ tasks[u].args = Num(3) /\ DelayOf(u) = 30000

\* The three cache fields.
Cache == <<accessToken, agentSecretToken, tokenExpiration>>

\* The cache a client holds once it has stored `body` at time `time`.
CacheOf(body, time) ==
    <<body[2].access_token, body[2].agent_secret_token, ExpirationOf(time, body[2].expires_in)>>

\* The token responses a client stores.
StoredBodies(k) == {body \in TokenBodies(k) \ {Null} : TokenResponseAccepted(body[2])}

\* C35: the cache is empty as constructed or holds the three values of one
\* token response; and every step that changes a cache field is the storing
\* of one response, which replaces all three fields by that response's.
C35_CacheFromOneResponse ==
    /\ [](\/ Cache = <<Null, Null, Null>>
          \/ \E k \in 1..postCount, i \in 0..MaxTicks :
                \E body \in StoredBodies(k) : Cache = CacheOf(body, i * TickMs))
    /\ [][Cache' # Cache =>
            \E t \in TaskIds :
                /\ Awaiting(t)
                /\ \E body \in StoredBodies(tasks[t].req) :
                      /\ DeliverTokenResponse(t, body)
                      /\ Cache' = CacheOf(body, now)]_vars

\* C35 witness: two refreshes overlapped; the response to the first was
\* stored and handed to its caller, and the cache now holds the three values
\* of the response to the second.
C35_Witness ==
    /\ \E t \in TaskIds :
          tasks[t].pc = "resolved" /\ tasks[t].result \in {AccessTokenOf(1), SecretTokenOf(1)}
    /\ \E i \in 0..MaxTicks :
          Cache = CacheOf(TokenBody(AccessTokenOf(2), SecretTokenOf(2), Num(1)), i * TickMs)

\* The refresh of task t fails in this step: its token request is answered
\* with a body that is not stored, or with an error the retry interceptor
\* does not answer with another attempt.
RefreshFails(t) ==
    \/ \E body \in TokenBodies(tasks[t].req) \ StoredBodies(tasks[t].req) :
            DeliverTokenResponse(t, body)
    \/ \E e \in AttemptErrors : RetryInterceptor(t, e) /\ ~retry'[t].sleeping

C37_HeadersFromOneResponse ==
    \A t \in TaskIds :
        (tasks[t].op = "getRequestHeaders" /\ tasks[t].pc = "resolved") =>
            \E k \in 1..postCount :
                /\ tasks[t].result[2]["Authorization"] = Bearer(AccessTokenOf(k))
                /\ tasks[t].result[2]["X-Agent-Secret-Token"] = SecretTokenOf(k)

\* The number of the token request whose response the cache holds (requests
\* are numbered in the order they are issued); 0 for the empty cache.
CacheRequest ==
    IF \E k \in 1..MaxTasks : accessToken = AccessTokenOf(k) \/ agentSecretToken = SecretTokenOf(k)
    THEN CHOOSE k \in 1..MaxTasks : accessToken = AccessTokenOf(k) \/ agentSecretToken = SecretTokenOf(k)
    ELSE 0

\* C38: the response to an earlier-issued token request never replaces in
\* the cache the response to a later-issued one.
C38_CacheNeverGoesBack ==
    [][CacheRequest' >= CacheRequest]_vars

\* C39: a middleware that has run its callbacks has either called next()
\* and sent no response, or sent one response, 401 or 500, without calling
\* next().
C39_OneTerminalOutcome ==
    \A t \in TaskIds :
        (tasks[t].op \in MiddlewareOps /\ tasks[t].pc = "responded") =>
            LET outcome == tasks[t].result[2] IN
            \/ outcome.next /\ outcome.status = 0
            \/ ~outcome.next /\ outcome.status \in {401, 500}

\* A module-level function is called by task t in this step and asks for the
\* default client.
AsksForDefaultClient(t) ==
    /\ tasks[t].pc = "idle" /\ tasks'[t].pc # "idle"
    /\ ~(tasks'[t].op = "index.validateA2ARequest" /\ tasks'[t].args = Undefined)

\* C40: getDefaultClient constructs at most one instance, which stays in
\* defaultClient from then on, so every call of a module-level function that
\* gets a client gets that one; a call during which the constructor throws
\* is rejected with the ValidationError and stores no instance, and a later
\* call constructs again.
C40_OneDefaultClient ==
    /\ [](/\ constructions <= 1
          /\ defaultClient = (IF constructions = 0 THEN Null ELSE DefaultClientId(1)))
    /\ [][\A t \in TaskIds :
            AsksForDefaultClient(t) =>
                IF defaultClient = Null /\ ~envValid
                THEN /\ tasks'[t].pc = "rejected"
                     /\ tasks'[t].error.code = "CONFIG_VALIDATION_ERROR"
                     /\ defaultClient' = Null /\ constructions' = constructions
                ELSE /\ tasks'[t].pc # "rejected"
                     /\ defaultClient' = DefaultClientId(1)]_vars

\* C40 witness: the first call failed in the constructor, a later call
\* constructed the instance, and the cache of that instance is filled.
C40_Witness ==
    /\ tasks[1].pc = "rejected" /\ tasks[1].error.code = "CONFIG_VALIDATION_ERROR"
    /\ tasks[2].pc = "resolved" /\ tasks[2].op = "getAgentRequestHeaders"
    /\ defaultClient = DefaultClientId(1) /\ constructions = 1
    /\ accessToken = AccessTokenOf(1)

====
